---------------------------- MODULE Spec2Model ----------------------------
(***************************************************************************)
(* EvolveED.ai backend: the ai_service pipeline of the notes, quizzes,     *)
(* roadmaps and tutor apps.                                                *)
(*                                                                         *)
(*   Spec      the inference client (call_huggingface_api) as a state      *)
(*             machine, one action per loop iteration, called directly     *)
(*             with any retry budget or with the default budget by a       *)
(*             caller that goes on from the client's outcome               *)
(*             (generate_notes_from_text, generate_quiz_questions,         *)
(*             generate_study_plan, _evaluate_short_answer,                *)
(*             generate_personalized_roadmap, generate_tutor_response);    *)
(*             the last two write records, step by step, each write of     *)
(*             which succeeds or raises.                                   *)
(*   SpecPure  the parsers, fallback generators and the roadmap progress,  *)
(*             which are functions of their arguments: Init draws the      *)
(*             input and one action applies each function; the loop of     *)
(*             _parse_problem_solution is also taken line by line.         *)
(*   SpecStore concurrent calls of evaluate_quiz_attempt over the stored   *)
(*             responses, attempts and the user's count of quizzes.        *)
(*                                                                         *)
(* A Python str is a sequence of one-character strings.  A literal of the  *)
(* source that no code ever scans is kept as a single token of such a      *)
(* sequence, so an f-string is the concatenation of its parts.             *)
(***************************************************************************)
EXTENDS Integers, Sequences, FiniteSets, TLC

VARIABLES
    entry,        \* who called the client: "direct", "notes", "quiz", "plan", "grade", "roadmap", "tutor", or "idle"
    input,        \* the arguments of the pipeline entry point
    max_retries,  \* call_huggingface_api(prompt, max_retries, delay)
    delay,
    attempt,      \* the loop variable of `for attempt in range(max_retries)`
    pc,           \* "loop", "returned", "raised" (the client), "not called", "idle"
    log,          \* what the client did so far: requests (with the answer) and sleeps
    client_out,   \* the outcome of call_huggingface_api
    pipe_out,     \* the outcome of the pipeline entry point
    fn,           \* SpecPure: the function that was applied ("none" before)
    arg,          \* SpecPure: its input
    out,          \* SpecPure: its outcome
    db,           \* the stored records: roadmaps, milestones, chat messages, quiz attempts
    pos           \* where a call that writes to the store stands, and its locals

clientVars == <<entry, input, max_retries, delay, attempt, pc, log, client_out, pipe_out>>
pureVars == <<fn, arg, out>>
storeVars == <<db, pos>>
vars == <<entry, input, max_retries, delay, attempt, pc, log, client_out, pipe_out, fn, arg, out, db, pos>>

---------------------------------------------------------------------------
(* Bounds of the model *)

MaxRetriesBound == 3
MaxDelay == 2

(* Program constants *)

DefaultMaxRetries == 3
DefaultDelay == 1

---------------------------------------------------------------------------
(* Python values *)

None == [kind |-> "none"]
Text(s) == [kind |-> "text", text |-> s]
Pending == [kind |-> "pending"]
Return(v) == [kind |-> "return", value |-> v]
Raise(e) == [kind |-> "raise", exc |-> e]

Min(a, b) == IF a <= b THEN a ELSE b
Max(a, b) == IF a >= b THEN a ELSE b

---------------------------------------------------------------------------
(* Python str operations *)

\* the character U+2022 (a bullet)
Bullet == "U+2022"
Whitespace == {" ", "\t", "\n", "\r"}
Digits == {"0", "1", "2", "3", "4", "5", "6", "7", "8", "9"}
UpperCase == <<"A", "B", "C", "D", "E", "F", "G", "H", "I", "J", "K", "L", "M", "N", "O", "P", "Q", "R", "S", "T", "U", "V", "W", "X", "Y", "Z">>
LowerCase == <<"a", "b", "c", "d", "e", "f", "g", "h", "i", "j", "k", "l", "m", "n", "o", "p", "q", "r", "s", "t", "u", "v", "w", "x", "y", "z">>

LowerChar(c) ==
    IF \E i \in DOMAIN UpperCase : UpperCase[i] = c
    THEN LowerCase[CHOOSE i \in DOMAIN UpperCase : UpperCase[i] = c]
    ELSE c

UpperChar(c) ==
    IF \E i \in DOMAIN LowerCase : LowerCase[i] = c
    THEN UpperCase[CHOOSE i \in DOMAIN LowerCase : LowerCase[i] = c]
    ELSE c

\* s.lower()
Lower(s) == [i \in 1..Len(s) |-> LowerChar(s[i])]

\* s.capitalize()
Capitalize(s) == [i \in 1..Len(s) |-> IF i = 1 THEN UpperChar(s[i]) ELSE LowerChar(s[i])]

\* s[:n] and s[n:] for n >= 0
Take(s, n) == SubSeq(s, 1, Min(n, Len(s)))
Drop(s, n) == SubSeq(s, Min(n, Len(s)) + 1, Len(s))

\* s.startswith(p), s.endswith(p), p in s
StartsWith(s, p) == Len(p) <= Len(s) /\ SubSeq(s, 1, Len(p)) = p
EndsWith(s, p) == Len(p) <= Len(s) /\ SubSeq(s, Len(s) - Len(p) + 1, Len(s)) = p
Contains(s, p) == \E i \in 0..(Len(s) - Len(p)) : SubSeq(s, i + 1, i + Len(p)) = p
ContainsAny(s, ps) == \E k \in DOMAIN ps : Contains(s, ps[k])

\* s.strip(), s.lstrip()
Strip(s) ==
    LET keep == {i \in DOMAIN s : s[i] \notin Whitespace}
    IN  IF keep = {} THEN <<>>
        ELSE SubSeq(s, CHOOSE i \in keep : \A j \in keep : i <= j,
                       CHOOSE i \in keep : \A j \in keep : i >= j)
LStrip(s) ==
    LET keep == {i \in DOMAIN s : s[i] \notin Whitespace}
    IN  IF keep = {} THEN <<>>
        ELSE SubSeq(s, CHOOSE i \in keep : \A j \in keep : i <= j, Len(s))

\* s.split(sep) for a one-character separator: the pieces between the
\* separators, one more piece than there are separators
Split(s, sep) ==
    LET cuts == {i \in DOMAIN s : s[i] = sep}
        \* the k-th separator from the left; 0 and Len(s) + 1 close the ends
        Cut(k) == IF k = 0 THEN 0
                  ELSE IF k > Cardinality(cuts) THEN Len(s) + 1
                  ELSE CHOOSE p \in cuts : Cardinality({q \in cuts : q < p}) = k - 1
    IN  [k \in 1..(Cardinality(cuts) + 1) |-> SubSeq(s, Cut(k - 1) + 1, Cut(k) - 1)]

\* sep.join(parts)
RECURSIVE Join(_, _)
Join(parts, sep) ==
    IF parts = <<>> THEN <<>>
    ELSE IF Len(parts) = 1 THEN parts[1]
    ELSE parts[1] \o sep \o Join(Tail(parts), sep)

\* [f(x) for x in xs]: the stripped lines
StripAll(xs) == [i \in 1..Len(xs) |-> Strip(xs[i])]
NonEmpty(s) == s # <<>>

---------------------------------------------------------------------------
(* notes/ai_service.py: the response parser and the fallback generator *)

SectionWindow == 5
SectionLines == 3
MinBulletLen == 10
MinSentenceLen == 20
MaxKeySentences == 5
MaxPoints == 8
MinQuestionLen == 10
MaxQuestions == 10
MaxTags == 6
ReadRate == 250
FallbackExcerpt == 2000

\* lines 157-176: extract_section(text, keywords, min_sentences)
extract_section(text, keywords, min_sentences) ==
    LET lines == Split(text, "\n")
        \* lines 166-169: the non-empty stripped lines among the next four
        Section(i) == SelectSeq(StripAll(SubSeq(lines, i + 1, Min(i + SectionWindow - 1, Len(lines)))),
                                NonEmpty)
        Hits(k) == {i \in DOMAIN lines :
                        /\ Contains(Lower(lines[i]), keywords[k])
                        /\ Len(Strip(lines[i])) > 0
                        /\ Section(i) # <<>>}
        Found == {k \in DOMAIN keywords : Hits(k) # {}}
    IN  IF Found # {}
        THEN LET k == CHOOSE x \in Found : \A y \in Found : x <= y
                 i == CHOOSE x \in Hits(k) : \A y \in Hits(k) : x <= y
             IN  Join(Take(Section(i), SectionLines), <<" ">>)
        ELSE Strip(Join(Take(Split(text, "."), min_sentences + 1), <<".", " ">>))

\* line 187-188: the line starts with a bullet marker or with digits and a dot
IsBulletLine(line) ==
    /\ line # <<>>
    /\ \/ line[1] \in {Bullet, "-", "*"}
       \/ \E n \in 1..(Len(line) - 1) :
            /\ \A j \in 1..n : line[j] \in Digits
            /\ line[n + 1] = "."

\* line 189: re.sub(r'^[<bullet>\-*\d\.]\s*', '', line)
StripMarker(line) ==
    IF line # <<>> /\ line[1] \in ({Bullet, "-", "*", "."} \cup Digits)
    THEN LStrip(Tail(line))
    ELSE line

\* lines 181-191: the bullet lines, cleaned, longer than 10 characters
BulletPoints(text) ==
    LET lines == StripAll(Split(text, "\n"))
        bullets == SelectSeq(lines, IsBulletLine)
        clean == [i \in 1..Len(bullets) |-> StripMarker(bullets[i])]
        Long(p) == p # <<>> /\ Len(p) > MinBulletLen
    IN  SelectSeq(clean, Long)

\* lines 194-198: the first sentences that are longer than 20 characters
KeySentences(text) ==
    LET sentences == StripAll(Take(Split(text, "."), MaxKeySentences))
        Long(p) == Len(p) > MinSentenceLen
    IN  SelectSeq(sentences, Long)

\* lines 179-200: extract_bullet_points(text)
extract_bullet_points(text) ==
    LET points == BulletPoints(text)
    IN  Take(IF points = <<>> THEN KeySentences(text) ELSE points, MaxPoints)

DefaultQuestions ==
    << <<"What are the main topics covered in this content?">>,
       <<"How can this knowledge be practically applied?">>,
       <<"What are the key concepts to remember?">>,
       <<"What questions remain unanswered?">> >>

\* extract_questions without the limit of line 222
extract_questions_unlimited(text) ==
    LET lines == StripAll(Split(text, "\n"))
        IsQuestion(l) == EndsWith(l, <<"?">>) /\ Len(l) > MinQuestionLen
        questions == SelectSeq(lines, IsQuestion)
    IN  IF questions = <<>> THEN DefaultQuestions ELSE questions

\* lines 203-222: extract_questions(text)
extract_questions(text) ==
    LET lines == StripAll(Split(text, "\n"))
        IsQuestion(l) == EndsWith(l, <<"?">>) /\ Len(l) > MinQuestionLen
        questions == SelectSeq(lines, IsQuestion)
    IN  Take(IF questions = <<>> THEN DefaultQuestions ELSE questions, MaxQuestions)

AdvancedWords == << <<"a", "d", "v", "a", "n", "c", "e", "d">>, <<"c", "o", "m", "p", "l", "e", "x">>, <<"d", "i", "f", "f", "i", "c", "u", "l", "t">>, <<"e", "x", "p", "e", "r", "t">> >>
IntermediateWords == << <<"i", "n", "t", "e", "r", "m", "e", "d", "i", "a", "t", "e">>, <<"m", "o", "d", "e", "r", "a", "t", "e">>, <<"m", "e", "d", "i", "u", "m">> >>

\* extract_difficulty with the two tests of lines 228 and 230 exchanged
extract_difficulty_intermediate_first(text) ==
    LET text_lower == Lower(text)
    IN  IF ContainsAny(text_lower, IntermediateWords) THEN <<"Intermediate">>
        ELSE IF ContainsAny(text_lower, AdvancedWords) THEN <<"Advanced">>
        ELSE <<"Beginner">>

\* lines 225-233: extract_difficulty(text)
extract_difficulty(text) ==
    LET text_lower == Lower(text)
    IN  IF ContainsAny(text_lower, AdvancedWords) THEN <<"Advanced">>
        ELSE IF ContainsAny(text_lower, IntermediateWords) THEN <<"Intermediate">>
        ELSE <<"Beginner">>

common_academic_terms ==
    << <<"s", "c", "i", "e", "n", "c", "e">>, <<"m", "a", "t", "h", "e", "m", "a", "t", "i", "c", "s">>, <<"h", "i", "s", "t", "o", "r", "y">>, <<"l", "i", "t", "e", "r", "a", "t", "u", "r", "e">>, <<"t", "e", "c", "h", "n", "o", "l", "o", "g", "y">>,
       <<"b", "u", "s", "i", "n", "e", "s", "s">>, <<"e", "c", "o", "n", "o", "m", "i", "c", "s">>, <<"p", "s", "y", "c", "h", "o", "l", "o", "g", "y">>, <<"m", "e", "d", "i", "c", "i", "n", "e">>, <<"e", "n", "g", "i", "n", "e", "e", "r", "i", "n", "g">>,
       <<"a", "r", "t">>, <<"p", "h", "i", "l", "o", "s", "o", "p", "h", "y">>, <<"e", "d", "u", "c", "a", "t", "i", "o", "n">>, <<"r", "e", "s", "e", "a", "r", "c", "h">>, <<"a", "n", "a", "l", "y", "s", "i", "s">> >>

\* lines 248-252: the loop over the vocabulary from term k on
RECURSIVE TagLoop(_, _, _)
TagLoop(tags, text_lower, k) ==
    IF k > Len(common_academic_terms) THEN tags
    ELSE IF Contains(text_lower, common_academic_terms[k])
         THEN LET t == Append(tags, common_academic_terms[k])
              IN  IF Len(t) >= MaxTags THEN t ELSE TagLoop(t, text_lower, k + 1)
         ELSE TagLoop(tags, text_lower, k + 1)

\* generate_tags without the limit of lines 251-252
generate_tags_unlimited(text, source_type) ==
    LET Occurs(term) == Contains(Lower(text), term)
    IN  <<source_type, <<"s", "t", "u", "d", "y">>, <<"n", "o", "t", "e", "s">>>> \o SelectSeq(common_academic_terms, Occurs)

\* lines 236-254: generate_tags(text, source_type)
generate_tags(text, source_type) ==
    TagLoop(<<source_type, <<"s", "t", "u", "d", "y">>, <<"n", "o", "t", "e", "s">>>>, Lower(text), 1)

\* lines 257-276: create_fallback_notes(text, title, source_type)
create_fallback_notes(text, title, source_type) ==
    [ summary |-> <<"Summary of ">> \o title
                    \o <<": This content covers important topics that require further study. The material appears to contain valuable information for learning and reference.">>,
      content |-> <<"Detailed Notes for ">> \o title \o <<":\n\n">> \o Take(text, FallbackExcerpt)
                    \o (IF Len(text) > FallbackExcerpt THEN <<"...">> ELSE <<>>),
      key_points |-> << <<"This content contains important information">>,
                        <<"Further analysis and study is recommended">>,
                        <<"Key concepts should be reviewed carefully">> >>,
      questions |-> << <<"What are the main topics covered?">>,
                       <<"How can this knowledge be applied?">>,
                       <<"What are the key takeaways?">>,
                       <<"What additional research might be helpful?">> >>,
      difficulty_level |-> <<"Intermediate">>,
      estimated_read_time |-> Max(1, Len(text) \div ReadRate),
      tags |-> << <<"s", "t", "u", "d", "y">>, <<"n", "o", "t", "e", "s">>, source_type >> ]

\* lines 131-154: parse_ai_response(ai_response, original_text, title, source_type)
parse_ai_response(ai_response, original_text, title, source_type) ==
    [ summary |-> extract_section(ai_response, << <<"s", "u", "m", "m", "a", "r", "y">>, <<"o", "v", "e", "r", "v", "i", "e", "w">> >>, 2),
      content |-> <<"Detailed Notes for ">> \o title \o <<":\n\n">> \o ai_response,
      key_points |-> extract_bullet_points(ai_response),
      questions |-> extract_questions(ai_response),
      difficulty_level |-> extract_difficulty(ai_response),
      estimated_read_time |-> Max(1, Len(original_text) \div ReadRate),
      tags |-> generate_tags(original_text, source_type) ]

---------------------------------------------------------------------------
(* quizzes/ai_service.py: the question parser and the fallback questions *)

MinQuestionLineLen == 20

\* lines 191-217: question_templates
question_templates(topic) ==
    << [ text |-> <<"What is the main principle behind ">> \o topic \o <<"?">>,
         type |-> "multiple_choice",
         options |-> << <<"A) Core concept of ">> \o topic,
                        <<"B) Basic principle of ">> \o topic,
                        <<"C) Advanced theory of ">> \o topic,
                        <<"D) Unrelated concept">> >> ],
       [ text |-> <<"Which statement about ">> \o topic \o <<" is correct?">>,
         type |-> "multiple_choice",
         options |-> << <<"A) ">> \o topic \o <<" involves specific processes">>,
                        <<"B) ">> \o topic \o <<" is completely theoretical">>,
                        <<"C) ">> \o topic \o <<" has no practical applications">>,
                        <<"D) ">> \o topic \o <<" is outdated">> >> ],
       [ text |-> topic \o <<" is essential for understanding the subject.">>,
         type |-> "true_false",
         options |-> << <<"True">>, <<"False">> >> ] >>

\* lines 187-234: _generate_fallback_questions(topic, question_count, difficulty)
generate_fallback_questions(topic, question_count, difficulty) ==
    LET templates == question_templates(topic)
        n == Max(0, Min(question_count, Len(templates)))
    IN  [ i \in 1..n |->
            LET template == templates[((i - 1) % Len(templates)) + 1]
            IN  [ question_text |-> template.text,
                  question_type |-> template.type,
                  options |-> template.options,
                  correct_answers |-> <<0>>,
                  explanation |-> <<"This question tests understanding of ">> \o topic \o <<" concepts.">>,
                  hint |-> <<"Think about the fundamental principles of ">> \o topic \o <<".">>,
                  points |-> 1,
                  difficulty_level |-> difficulty ] ]

\* lines 155-172: _determine_question_type(question_text, question_types)
determine_question_type(question_text, question_types) ==
    LET question_lower == Lower(question_text)
    IN  IF /\ "true_false" \in question_types
           /\ ContainsAny(question_lower,
                          << <<"t", "r", "u", "e", " ", "o", "r", " ", "f", "a", "l", "s", "e">>, <<"i", "s", " ", "i", "t", " ", "t", "r", "u", "e">>, <<"c", "o", "r", "r", "e", "c", "t", " ", "o", "r", " ", "i", "n", "c", "o", "r", "r", "e", "c", "t">> >>)
        THEN "true_false"
        ELSE IF /\ "short_answer" \in question_types
                /\ ContainsAny(question_lower, << <<"w", "h", "a", "t", " ", "i", "s">>, <<"d", "e", "f", "i", "n", "e">>, <<"n", "a", "m", "e">> >>)
        THEN "short_answer"
        ELSE "multiple_choice"

\* lines 175-184: _generate_mc_options(question_text, topic)
generate_mc_options(question_text, topic) ==
    << <<"A) Primary concept of ">> \o topic,
       <<"B) Secondary aspect of ">> \o topic,
       <<"C) Related but different concept">>,
       <<"D) Unrelated option">> >>

\* lines 112: the line looks like a question
IsQuestionLine(line) ==
    /\ (EndsWith(line, <<"?">>) \/ Contains(Lower(line), <<"q", "u", "e", "s", "t", "i", "o", "n">>))
    /\ Len(line) > MinQuestionLineLen

\* lines 121-139: the question built from a question line
NewQuestion(line, topic, difficulty, question_types) ==
    LET q_type == determine_question_type(line, question_types)
    IN  [ question_text |-> line,
          question_type |-> q_type,
          options |-> IF q_type = "multiple_choice" THEN generate_mc_options(line, topic)
                      ELSE IF q_type = "true_false" THEN << <<"True">>, <<"False">> >>
                      ELSE <<>>,
          correct_answers |-> IF q_type = "true_false"
                              THEN << IF Contains(Lower(line), <<"t", "r", "u", "e">>) THEN 0 ELSE 1 >>
                              ELSE <<0>>,
          explanation |-> <<"This question tests understanding of ">> \o topic \o <<".">>,
          hint |-> <<"Consider the key concepts of ">> \o topic \o <<".">>,
          points |-> 1,
          difficulty_level |-> difficulty ]

\* lines 106-139: the loop over the lines; st.current is a list of zero or one
\* question (current_question), st.broke records the break of line 118
QuestionScanStep(st, rawline, topic, difficulty, question_count, question_types) ==
    LET line == Strip(rawline)
    IN  IF st.broke \/ line = <<>> \/ ~IsQuestionLine(line) THEN st
        ELSE LET data == IF st.current # <<>> /\ st.question_num < question_count
                         THEN st.questions_data \o st.current
                         ELSE st.questions_data
                 num == st.question_num + 1
             IN  IF num > question_count
                 THEN [st EXCEPT !.questions_data = data, !.question_num = num, !.broke = TRUE]
                 ELSE [ questions_data |-> data,
                        current |-> <<NewQuestion(line, topic, difficulty, question_types)>>,
                        question_num |-> num,
                        broke |-> FALSE ]

RECURSIVE QuestionScan(_, _, _, _, _, _, _)
QuestionScan(st, lines, i, topic, difficulty, question_count, question_types) ==
    IF i > Len(lines) THEN st
    ELSE QuestionScan(QuestionScanStep(st, lines[i], topic, difficulty, question_count, question_types),
                      lines, i + 1, topic, difficulty, question_count, question_types)

\* the result without the filling loop of lines 149-150
FillQuestionsNever(questions_data, topic, difficulty, question_count) == questions_data

\* lines 149-150: while len(questions_data) < question_count: extend with one
\* fallback question
RECURSIVE FillQuestions(_, _, _, _)
FillQuestions(questions_data, topic, difficulty, question_count) ==
    IF Len(questions_data) < question_count
    THEN FillQuestions(questions_data \o generate_fallback_questions(topic, 1, difficulty),
                       topic, difficulty, question_count)
    ELSE questions_data

\* lines 96-152: _parse_questions_from_response, for question_count >= 0
parse_questions_from_response(ai_response, topic, difficulty, question_count, question_types) ==
    LET st == QuestionScan([questions_data |-> <<>>, current |-> <<>>, question_num |-> 0, broke |-> FALSE],
                           Split(ai_response, "\n"), 1, topic, difficulty, question_count, question_types)
        data == IF st.current # <<>> /\ Len(st.questions_data) < question_count
                THEN st.questions_data \o st.current
                ELSE st.questions_data
    IN  Take(FillQuestions(data, topic, difficulty, question_count), question_count)

---------------------------------------------------------------------------
(* tutor/ai_service.py: the problem-solution parser, the study plan *)

MinStepLen == 10
MinConceptLen == 5
MinSimilarLen == 15
ExplanationLen == 200

\* s.replace(c, '') for a one-character c
Remove(s, c) == LET Other(x) == x # c IN SelectSeq(s, Other)

DefaultSteps ==
    << [step |-> 1, description |-> <<"Analyze the problem">>,
        work |-> <<"Identify known and unknown variables">>],
       [step |-> 2, description |-> <<"Apply relevant concepts">>,
        work |-> <<"Use appropriate formulas or methods">>],
       [step |-> 3, description |-> <<"Calculate result">>,
        work |-> <<"Perform calculations step by step">>] >>

\* the state before the first line, with the step counter started at one
SolutionScanInitCountsFromOne ==
    [ current_section |-> "None", step_number |-> 1, analysis |-> <<>>,
      solution_steps |-> <<>>, final_answer |-> <<>>, key_concepts |-> <<>>,
      similar_problems |-> <<>> ]

\* lines 329-340: the state before the first line
SolutionScanInit ==
    [ current_section |-> "None", step_number |-> 0, analysis |-> <<>>,
      solution_steps |-> <<>>, final_answer |-> <<>>, key_concepts |-> <<>>,
      similar_problems |-> <<>> ]

\* lines 350-363: the section a line switches to ("" when it has no keyword)
SectionOf(line_lower) ==
    IF Contains(line_lower, <<"a", "n", "a", "l", "y", "s", "i", "s">>) \/ Contains(line_lower, <<"u", "n", "d", "e", "r", "s", "t", "a", "n", "d">>) THEN "analysis"
    ELSE IF Contains(line_lower, <<"s", "t", "e", "p">>) \/ Contains(line_lower, <<"s", "o", "l", "u", "t", "i", "o", "n">>) THEN "steps"
    ELSE IF Contains(line_lower, <<"a", "n", "s", "w", "e", "r">>) \/ Contains(line_lower, <<"r", "e", "s", "u", "l", "t">>) THEN "answer"
    ELSE IF Contains(line_lower, <<"c", "o", "n", "c", "e", "p", "t">>) THEN "concepts"
    ELSE IF Contains(line_lower, <<"s", "i", "m", "i", "l", "a", "r">>) \/ Contains(line_lower, <<"p", "r", "a", "c", "t", "i", "c", "e">>) THEN "similar"
    ELSE ""

\* the body of the loop without the keyword test of line 367
SolutionScanStepAnyLine(st, rawline) ==
    LET line == Strip(rawline)
        line_lower == Lower(line)
        hit == SectionOf(line_lower)
        section == IF hit = "" THEN st.current_section ELSE hit
        s1 == [st EXCEPT
                 !.current_section = section,
                 !.analysis = IF hit = "analysis" /\ st.analysis = <<>> THEN line ELSE @,
                 !.final_answer = IF /\ hit = "answer"
                                     /\ Contains(line_lower, <<"f", "i", "n", "a", "l">>)
                                     /\ st.final_answer = <<>>
                                  THEN line ELSE @]
        concept == Strip(Remove(Remove(line, "-"), "*"))
    IN  IF line = <<>> THEN st
        ELSE IF section = "steps" /\ Len(line) > MinStepLen
        THEN [s1 EXCEPT
                !.step_number = @ + 1,
                !.solution_steps = Append(@, [step |-> s1.step_number + 1,
                                              description |-> line, work |-> line])]
        ELSE IF section = "concepts" /\ Len(line) > MinConceptLen
        THEN IF concept # <<>> /\ ~(\E k \in DOMAIN s1.key_concepts : s1.key_concepts[k] = concept)
             THEN [s1 EXCEPT !.key_concepts = Append(@, concept)]
             ELSE s1
        ELSE IF section = "similar" /\ Len(line) > MinSimilarLen
        THEN [s1 EXCEPT !.similar_problems =
                            Append(@, [problem |-> line, difficulty |-> <<"medium">>])]
        ELSE s1

\* lines 343-382: the body of the loop, for one line
SolutionScanStep(st, rawline) ==
    LET line == Strip(rawline)
        line_lower == Lower(line)
        hit == SectionOf(line_lower)
        section == IF hit = "" THEN st.current_section ELSE hit
        s1 == [st EXCEPT
                 !.current_section = section,
                 !.analysis = IF hit = "analysis" /\ st.analysis = <<>> THEN line ELSE @,
                 !.final_answer = IF /\ hit = "answer"
                                     /\ Contains(line_lower, <<"f", "i", "n", "a", "l">>)
                                     /\ st.final_answer = <<>>
                                  THEN line ELSE @]
        concept == Strip(Remove(Remove(line, "-"), "*"))
    IN  IF line = <<>> THEN st
        ELSE IF section = "steps" /\ Len(line) > MinStepLen
        THEN IF ContainsAny(line_lower, << <<"s", "t", "e", "p">>, <<"f", "i", "r", "s", "t">>, <<"n", "e", "x", "t">>, <<"t", "h", "e", "n">>, <<"f", "i", "n", "a", "l", "l", "y">> >>)
             THEN [s1 EXCEPT
                     !.step_number = @ + 1,
                     !.solution_steps = Append(@, [step |-> s1.step_number + 1,
                                                   description |-> line, work |-> line])]
             ELSE s1
        ELSE IF section = "concepts" /\ Len(line) > MinConceptLen
        THEN IF concept # <<>> /\ ~(\E k \in DOMAIN s1.key_concepts : s1.key_concepts[k] = concept)
             THEN [s1 EXCEPT !.key_concepts = Append(@, concept)]
             ELSE s1
        ELSE IF section = "similar" /\ Len(line) > MinSimilarLen
        THEN [s1 EXCEPT !.similar_problems =
                            Append(@, [problem |-> line, difficulty |-> <<"medium">>])]
        ELSE s1

RECURSIVE SolutionScan(_, _, _)
SolutionScan(st, lines, i) ==
    IF i > Len(lines) THEN st
    ELSE SolutionScan(SolutionScanStep(st, lines[i]), lines, i + 1)

\* lines 324-408: _parse_problem_solution(ai_response, problem_type)
parse_problem_solution(ai_response, problem_type) ==
    LET st == SolutionScan(SolutionScanInit, Split(ai_response, "\n"), 1)
    IN  [ analysis |-> IF st.analysis = <<>>
                       THEN <<"This is a ">> \o problem_type
                                \o <<" problem that requires systematic approach.">>
                       ELSE st.analysis,
          solution_steps |-> IF st.solution_steps = <<>> THEN DefaultSteps ELSE st.solution_steps,
          final_answer |-> st.final_answer,
          explanation |-> IF Len(ai_response) > ExplanationLen
                          THEN Take(ai_response, ExplanationLen) \o <<"...">>
                          ELSE ai_response,
          key_concepts |-> st.key_concepts,
          similar_problems |-> st.similar_problems,
          learning_resources |-> << [ title |-> Capitalize(problem_type) \o <<" Tutorial">>,
                                      type |-> <<"tutorial">>,
                                      url |-> <<"https://example.com/tutorial">> ] >> ]

\* lines 196-220: _clean_tutor_response(ai_response)
MaxResponseLen == 800
MinResponseLen == 20
MaxSentences == 4

ClarifyMessage ==
    <<"I", "'", "m", " ", "h", "e", "r", "e", " ", "t", "o", " ", "h", "e", "l", "p", " ", "y", "o", "u", " ", "l", "e", "a", "r", "n", "!", " ", "C", "o", "u", "l", "d", " ", "y", "o", "u", " ", "p", "l", "e", "a", "s", "e", " ", "c", "l", "a", "r", "i", "f", "y", " ", "y", "o", "u", "r", " ", "q", "u", "e", "s", "t", "i", "o", "n", "?">>

MoreDetailMessage ==
    <<"T", "h", "a", "t", "'", "s", " ", "a", " ", "g", "r", "e", "a", "t", " ", "q", "u", "e", "s", "t", "i", "o", "n", "!", " ", "L", "e", "t", " ", "m", "e", " ", "h", "e", "l", "p", " ", "y", "o", "u", " ", "u", "n", "d", "e", "r", "s", "t", "a", "n", "d", " ", "t", "h", "i", "s", " ", "c", "o", "n", "c", "e", "p", "t", " ", "b", "e", "t", "t", "e", "r", ".", " ", "C", "o", "u", "l", "d", " ", "y", "o", "u", " ", "p", "r", "o", "v", "i", "d", "e", " ", "a", " ", "b", "i", "t", " ", "m", "o", "r", "e", " ", "d", "e", "t", "a", "i", "l", " ", "a", "b", "o", "u", "t", " ", "w", "h", "a", "t", " ", "y", "o", "u", "'", "d", " ", "l", "i", "k", "e", " ", "t", "o", " ", "l", "e", "a", "r", "n", "?">>

prefixes_to_remove == << <<"T", "u", "t", "o", "r", ":">>, <<"A", "I", ":">>, <<"A", "s", "s", "i", "s", "t", "a", "n", "t", ":">>, <<"R", "e", "s", "p", "o", "n", "s", "e", ":">> >>

\* lines 206-208: each prefix in turn, taken off the text as it then stands
RECURSIVE RemovePrefixes(_, _)
RemovePrefixes(response, k) ==
    IF k > Len(prefixes_to_remove) THEN response
    ELSE RemovePrefixes(IF StartsWith(response, prefixes_to_remove[k])
                        THEN Strip(Drop(response, Len(prefixes_to_remove[k])))
                        ELSE response,
                        k + 1)

\* lines 211-213: the first sentences of a text that is too long
FirstSentences(response) ==
    IF Len(response) > MaxResponseLen
    THEN Join(Take(Split(response, "."), MaxSentences), <<".", " ">>) \o <<".">>
    ELSE response

clean_tutor_response(ai_response) ==
    IF ai_response = <<>> THEN ClarifyMessage
    ELSE LET response == FirstSentences(RemovePrefixes(Strip(ai_response), 1))
         IN  IF Len(response) < MinResponseLen THEN MoreDetailMessage ELSE response

\* lines 265-275: _generate_fallback_response(user_message, session_type)
generate_fallback_response(user_message, session_type) ==
    IF session_type = "chat"
    THEN <<"I understand you're asking about that topic. Let me help you work through this step by step. Could you provide a bit more detail about what specifically you'd like to understand?">>
    ELSE IF session_type = "problem_solving"
    THEN <<"I see you have a problem to solve. Let's break this down together. Can you share the specific problem statement or what part you're finding challenging?">>
    ELSE IF session_type = "concept_explanation"
    THEN <<"That's a great concept to explore! Let me help you understand this better. What specific aspect would you like me to explain first?">>
    ELSE IF session_type = "homework_help"
    THEN <<"I'm here to help you with your homework. Let's work through this together. What subject area are we focusing on?">>
    ELSE IF session_type = "exam_prep"
    THEN <<"Exam preparation is important! I can help you review key concepts and practice problems. What topics would you like to focus on?">>
    ELSE <<"I'm here to help you learn! How can I assist you today?">>

\* lines 731-735: the entry of one day of a schedule
DayEntry(day_topics, daily_time, kind, goal) ==
    [ topics |-> day_topics,
      tasks |-> [ i \in 1..Len(day_topics) |->
                    [ task |-> <<"Study ">> \o day_topics[i],
                      duration_minutes |-> daily_time \div Len(day_topics),
                      type |-> kind ] ],
      goals |-> [ i \in 1..Len(day_topics) |-> <<goal>> \o day_topics[i] ] ]

\* sum(len(day_data["tasks"]) for day_data in schedule.values())
RECURSIVE TotalTasks(_, _)
TotalTasks(schedule, days) ==
    IF days = {} THEN 0
    ELSE LET d == CHOOSE x \in days : TRUE
         IN  Len(schedule[d].tasks) + TotalTasks(schedule, days \ {d})

\* lines 738-749 (694-705): the plan built around a schedule; the schedule maps
\* the day number n of the key "day_<n>" to the day's entry
PlanResult(schedule, duration, topics, tips) ==
    [ study_schedule |-> schedule,
      milestones |-> << [day |-> duration \div 2, milestone |-> <<"Mid-point review">>,
                         assessment |-> <<"Review progress">>],
                        [day |-> duration, milestone |-> <<"Complete study plan">>,
                         assessment |-> <<"Final assessment">>] >>,
      resources |-> << [title |-> <<"Study Guide">>, type |-> <<"website">>, url |-> <<>>,
                        topics |-> topics] >>,
      total_tasks |-> TotalTasks(schedule, DOMAIN schedule),
      study_tips |-> tips ]

\* lines 722-736: the loop over the days, rotating the topics
RECURSIVE FallbackSchedule(_, _, _, _, _)
FallbackSchedule(day, topics, schedule, topics_per_day, plan_data) ==
    IF day > plan_data.duration_days THEN schedule
    ELSE LET head == Take(topics, topics_per_day)
             day_topics == IF head = <<>>
                           THEN << IF plan_data.subject # <<>> THEN plan_data.subject
                                   ELSE <<"General Study">> >>
                           ELSE head
             entry_ == DayEntry(day_topics, plan_data.daily_study_time, <<"reading">>, "Understand ")
         IN  FallbackSchedule(day + 1, Drop(topics, topics_per_day) \o head,
                              [d \in (DOMAIN schedule) \cup {day} |->
                                    IF d = day THEN entry_ ELSE schedule[d]],
                              topics_per_day, plan_data)

EmptySchedule == [d \in {} |-> <<>>]

\* lines 712-749: _create_fallback_study_plan(plan_data), for duration_days >= 0
create_fallback_study_plan(plan_data) ==
    LET duration == plan_data.duration_days
        topics == plan_data.topics
    IN  IF duration = 0
        THEN Raise("ZeroDivisionError")
        ELSE Return(PlanResult(FallbackSchedule(1, topics, EmptySchedule,
                                                Max(1, Len(topics) \div duration), plan_data),
                               duration, topics,
                               << <<"Study consistently">>, <<"Take breaks">>,
                                  <<"Review regularly">>, <<"Practice actively">> >>))

\* int(s) for a run of digits
RECURSIVE ParseInt(_)
ParseInt(ds) ==
    IF ds = <<>> THEN 0
    ELSE 10 * ParseInt(SubSeq(ds, 1, Len(ds) - 1))
         + (CHOOSE v \in 0..9 : <<"0", "1", "2", "3", "4", "5", "6", "7", "8", "9">>[v + 1] = ds[Len(ds)])

\* the longest run of characters of `set` at the start of s
RECURSIVE SpanLen(_, _)
SpanLen(s, set) == IF s # <<>> /\ s[1] \in set THEN 1 + SpanLen(Tail(s), set) ELSE 0

\* line 654, 664: re.compile(r'day\s*(\d+)', re.IGNORECASE).search(line): the
\* places where the pattern matches, and the digits of the leftmost match
DayMatches(line) ==
    {p \in DOMAIN line :
        /\ p + 2 <= Len(line)
        /\ Lower(SubSeq(line, p, p + 2)) = <<"d", "a", "y">>
        /\ LET rest == Drop(line, p + 2)
           IN  SpanLen(Drop(rest, SpanLen(rest, Whitespace)), Digits) > 0}

DayNumber(line) ==
    LET p == CHOOSE x \in DayMatches(line) : \A y \in DayMatches(line) : x <= y
        rest == Drop(line, p + 2)
        tail == Drop(rest, SpanLen(rest, Whitespace))
    IN  ParseInt(Take(tail, SpanLen(tail, Digits)))

\* lines 658-680: the loop over the lines of the response
PlanScanStep(st, rawline, topics, topics_per_day, plan_data) ==
    LET line == Strip(rawline)
    IN  IF line = <<>> \/ DayMatches(line) = {} THEN st
        ELSE LET current_day == DayNumber(line)
                 day_topics == IF st.current_topics # <<>>
                               THEN Take(st.current_topics, topics_per_day)
                               ELSE << IF topics # <<>> THEN topics[1] ELSE <<"Review">> >>
                 entry_ == DayEntry(day_topics, plan_data.daily_study_time, <<"reading">>, "Understand ")
             IN  IF current_day <= plan_data.duration_days
                 THEN [ current_topics |-> Drop(st.current_topics, topics_per_day),
                        schedule |-> [d \in (DOMAIN st.schedule) \cup {current_day} |->
                                        IF d = current_day THEN entry_ ELSE st.schedule[d]] ]
                 ELSE st

RECURSIVE PlanScan(_, _, _, _, _, _)
PlanScan(st, lines, i, topics, topics_per_day, plan_data) ==
    IF i > Len(lines) THEN st
    ELSE PlanScan(PlanScanStep(st, lines[i], topics, topics_per_day, plan_data),
                  lines, i + 1, topics, topics_per_day, plan_data)

\* lines 683-692: the days the response did not name
FillDays(schedule, topics, plan_data) ==
    [d \in (DOMAIN schedule) \cup (1..plan_data.duration_days) |->
        IF d \in DOMAIN schedule THEN schedule[d]
        ELSE LET remaining_topics == IF topics # <<>>
                                     THEN <<topics[(d % Len(topics)) + 1]>>
                                     ELSE << <<"General Review">> >>
             IN  DayEntry(remaining_topics, plan_data.daily_study_time, <<"review">>, "Review ")]

\* lines 641-709: _parse_study_plan(ai_response, plan_data), for duration_days >= 0;
\* the ZeroDivisionError of line 650 is caught at line 707 and raised again by
\* the fallback called at line 709
parse_study_plan(ai_response, plan_data) ==
    LET duration == plan_data.duration_days
        topics == plan_data.topics
    IN  IF duration = 0
        THEN create_fallback_study_plan(plan_data)
        ELSE LET st == PlanScan([current_topics |-> topics, schedule |-> EmptySchedule],
                                Split(ai_response, "\n"), 1, topics,
                                Max(1, Len(topics) \div duration), plan_data)
             IN  Return(PlanResult(FillDays(st.schedule, topics, plan_data), duration, topics,
                                   << <<"Study consistently">>, <<"Take regular breaks">>,
                                      <<"Review frequently">>, <<"Practice actively">> >>))

---------------------------------------------------------------------------
(* roadmaps/ai_service.py: the roadmap progress *)

DefaultReadiness == 60
MaxReadiness == 100

\* line 453: re.findall(r'\d+', line)[0], the leftmost run of digits of a
\* line that has a digit
FirstNumber(line) ==
    LET p == CHOOSE x \in DOMAIN line :
                /\ line[x] \in Digits
                /\ \A y \in 1..(x - 1) : line[y] \notin Digits
        rest == Drop(line, p - 1)
    IN  Take(rest, SpanLen(rest, Digits))

\* lines 451-456 without the min of line 455
overall_readiness_score_uncapped(ai_response) ==
    LET lines == Split(ai_response, "\n")
        hits == {i \in DOMAIN lines :
                    /\ Contains(Lower(lines[i]), <<"s", "c", "o", "r", "e">>) \/ Contains(lines[i], <<"%">>)
                    /\ \E x \in DOMAIN lines[i] : lines[i][x] \in Digits}
    IN  IF hits = {} THEN DefaultReadiness
        ELSE ParseInt(FirstNumber(lines[CHOOSE i \in hits : \A j \in hits : i <= j]))

\* lines 440 and 448-456 of _parse_gap_analysis(ai_response, skills_analysis):
\* the overall_readiness_score; the loops of lines 458-495 fill the lists of
\* the result and leave the score alone
overall_readiness_score(ai_response) ==
    LET lines == Split(ai_response, "\n")
        hits == {i \in DOMAIN lines :
                    /\ Contains(Lower(lines[i]), <<"s", "c", "o", "r", "e">>) \/ Contains(lines[i], <<"%">>)
                    /\ \E x \in DOMAIN lines[i] : lines[i][x] \in Digits}
    IN  IF hits = {} THEN DefaultReadiness
        ELSE Min(MaxReadiness,
                 ParseInt(FirstNumber(lines[CHOOSE i \in hits : \A j \in hits : i <= j])))

\* int(p / n) for n > 0: the quotient truncated toward zero
IntTrunc(p, n) == IF p >= 0 THEN p \div n ELSE -((-p) \div n)

\* lines 550-555: the sum of the milestones' contributions
RECURSIVE Progress(_)
Progress(milestones) ==
    IF milestones = <<>> THEN 0
    ELSE (IF Head(milestones).status = "completed" THEN 100
          ELSE IF Head(milestones).status = "in_progress" THEN Head(milestones).progress_percentage
          ELSE 0)
         + Progress(Tail(milestones))

\* update_roadmap_progress with round() in the place of int()
update_roadmap_progress_rounds(roadmap) ==
    LET n == Len(roadmap.milestones)
        overall == IF n = 0 THEN 0 ELSE (2 * Progress(roadmap.milestones) + n) \div (2 * n)
    IN  IF n = 0 THEN roadmap
        ELSE [roadmap EXCEPT !.overall_progress_percentage = overall,
                             !.status = IF overall = 100 THEN "completed" ELSE @]

\* lines 538-567: update_roadmap_progress(roadmap), the roadmap as it is saved;
\* a milestone's id is its position
update_roadmap_progress(roadmap) ==
    LET milestones == roadmap.milestones
        total_milestones == Len(milestones)
        overall_progress == IntTrunc(Progress(milestones), total_milestones)
    IN  IF total_milestones = 0 THEN roadmap
        ELSE [roadmap EXCEPT
                !.overall_progress_percentage = overall_progress,
                !.completed_milestones =
                    {i \in DOMAIN milestones : milestones[i].status = "completed"},
                !.status = IF overall_progress = 100 THEN "completed" ELSE @]

---------------------------------------------------------------------------
(* roadmaps/ai_service.py: the roadmap that is parsed from a response *)

\* s.replace(p, '') for a non-empty p
RECURSIVE RemoveAll(_, _)
RemoveAll(s, p) ==
    IF Len(s) < Len(p) THEN s
    ELSE IF StartsWith(s, p) THEN RemoveAll(Drop(s, Len(p)), p)
    ELSE <<s[1]>> \o RemoveAll(Tail(s), p)

MinTitleLineLen == 10
MaxMilestoneTitle == 50

\* lines 109-118: the title of the parsed roadmap, from the first line that
\* names one
roadmap_title(ai_response, career_goal) ==
    LET lines == Split(ai_response, "\n")
        named == {i \in DOMAIN lines :
                    /\ \/ Contains(Lower(lines[i]), <<"r", "o", "a", "d", "m", "a", "p">>)
                       \/ Contains(Lower(lines[i]), <<"t", "i", "t", "l", "e">>)
                    /\ Len(lines[i]) > MinTitleLineLen}
    IN  IF named = {} THEN <<"Learning Path: ">> \o career_goal
        ELSE LET line == lines[CHOOSE i \in named : \A j \in named : i <= j]
             IN  Strip(RemoveAll(RemoveAll(Strip(line), <<"T", "i", "t", "l", "e", ":">>), <<"R", "o", "a", "d", "m", "a", "p", ":">>))

milestone_keywords == << <<"m", "i", "l", "e", "s", "t", "o", "n", "e">>, <<"p", "h", "a", "s", "e">>, <<"s", "t", "e", "p">>, <<"s", "t", "a", "g", "e">>, <<"w", "e", "e", "k">>, <<"m", "o", "n", "t", "h">> >>

\* lines 153-196: the milestones _extract_milestones_from_response collects,
\* one for each non-blank line with a milestone keyword; of a milestone the
\* title and the order are kept
extract_milestones(ai_response) ==
    LET lines == StripAll(Split(ai_response, "\n"))
        IsMilestone(line) == line # <<>> /\ ContainsAny(Lower(line), milestone_keywords)
        found == SelectSeq(lines, IsMilestone)
        Title(line) == LET title == Strip(Remove(line, ":"))
                       IN  IF Len(title) > MaxMilestoneTitle
                           THEN Take(title, MaxMilestoneTitle - 3) \o <<".", ".", ".">>
                           ELSE title
    IN  [k \in 1..Len(found) |-> [title |-> Title(found[k]), order |-> k]]

\* lines 306-322, 342: the three milestones of the fallback roadmap
basic_milestones ==
    << [title |-> <<"Foundation Skills">>, order |-> 1],
       [title |-> <<"Intermediate Development">>, order |-> 2],
       [title |-> <<"Advanced Practice">>, order |-> 3] >>

---------------------------------------------------------------------------
(* The pipeline entry points, after the client has answered *)

\* `if ai_response:` - the client returned a non-empty text
Truthy(co) == co.kind = "text" /\ co.text # <<>>

\* notes lines 96-128: generate_notes_from_text(text, title, source_type)
generate_notes_reraises(co, in) ==
    IF Truthy(co)
    THEN Return(parse_ai_response(co.text, in.text, in.title, in.source_type))
    ELSE IF co.kind = "raise" THEN co
    ELSE Return(create_fallback_notes(in.text, in.title, in.source_type))

generate_notes_from_text(co, in) ==
    IF Truthy(co)
    THEN Return(parse_ai_response(co.text, in.text, in.title, in.source_type))
    ELSE Return(create_fallback_notes(in.text, in.title, in.source_type))

\* quizzes lines 61-93: generate_quiz_questions(topic, difficulty, question_count,
\* question_types)
generate_quiz_none_is_empty(co, in) ==
    IF Truthy(co)
    THEN Return(parse_questions_from_response(co.text, in.topic, in.difficulty,
                                              in.question_count, in.question_types))
    ELSE IF co.kind = "none" THEN Return(<<>>)
    ELSE Return(generate_fallback_questions(in.topic, in.question_count, in.difficulty))

generate_quiz_questions(co, in) ==
    IF Truthy(co)
    THEN Return(parse_questions_from_response(co.text, in.topic, in.difficulty,
                                              in.question_count, in.question_types))
    ELSE Return(generate_fallback_questions(in.topic, in.question_count, in.difficulty))

\* tutor lines 608-638: generate_study_plan(plan_data); an exception of the try
\* block (the client's, or the parser's) is answered by the fallback
generate_study_plan(co, in) ==
    IF Truthy(co) /\ parse_study_plan(co.text, in).kind = "return"
    THEN parse_study_plan(co.text, in)
    ELSE create_fallback_study_plan(in)

\* quizzes lines 392-396 and 400-404: the lower-cased, stripped user answer
\* equals a listed answer, lower-cased and stripped
string_match_case_sensitive(user_answer, correct_answers) ==
    \E k \in DOMAIN correct_answers : Strip(user_answer) = Strip(correct_answers[k])

string_match(user_answer, correct_answers) ==
    \E k \in DOMAIN correct_answers :
        Strip(Lower(user_answer)) = Strip(Lower(correct_answers[k]))

\* quizzes lines 375-404: _evaluate_short_answer(user_answer, correct_answers);
\* the verdict of the generated text when it has one, the string match
\* otherwise and when the client raised
evaluate_short_answer_ignores_incorrect(co, in) ==
    IF Truthy(co) /\ Contains(Lower(co.text), <<"c", "o", "r", "r", "e", "c", "t">>)
    THEN Return(TRUE)
    ELSE Return(string_match(in.user_answer, in.correct_answers))

evaluate_short_answer(co, in) ==
    IF Truthy(co) /\ Contains(Lower(co.text), <<"c", "o", "r", "r", "e", "c", "t">>)
    THEN Return(~Contains(Lower(co.text), <<"i", "n", "c", "o", "r", "r", "e", "c", "t">>))
    ELSE Return(string_match(in.user_answer, in.correct_answers))

---------------------------------------------------------------------------
(* The inference client: call_huggingface_api *)

\* the texts the endpoint generates in the client model
GenTexts ==
    { <<>>,
      <<"H", "e", "l", "l", "o">>,
      <<"D", "a", "y", " ", "1", ":", " ", "W", "h", "a", "t", " ", "i", "s", " ", "t", "h", "e", " ", "m", "a", "i", "n", " ", "i", "d", "e", "a", " ", "o", "f", " ", "a", " ", "m", "a", "m", "m", "a", "l", "?", "\n", "-", " ", "K", "e", "y", " ", "i", "d", "e", "a", " ", "o", "n", "e", " ", "a", "b", "o", "u", "t", " ", "m", "a", "m", "m", "a", "l", "s">>,
      <<"C", "o", "r", "r", "e", "c", "t">>,
      <<"T", "h", "i", "s", " ", "i", "s", " ", "I", "n", "c", "o", "r", "r", "e", "c", "t", ".">>,
      <<"R", "o", "a", "d", "m", "a", "p", ":", " ", "D", "a", "t", "a", " ", "p", "a", "t", "h", "\n", "P", "h", "a", "s", "e", " ", "1", ":", " ", "l", "e", "a", "r", "n", " ", "p", "r", "o", "g", "r", "a", "m", "m", "i", "n", "g", "\n", "S", "t", "a", "g", "e", " ", "2", " ", "b", "a", "s", "i", "c", "s">> }

\* a JSON object of the response: a dict that may lack the key
JsonObjects == [has_text : BOOLEAN, generated_text : GenTexts]

\* the JSON bodies of a 200 response: a list of objects, or one object
JsonBodies ==
    {[shape |-> "list", elems |-> <<>>, obj |-> [has_text |-> FALSE, generated_text |-> <<>>]]}
    \cup {[shape |-> "list", elems |-> <<o>>, obj |-> [has_text |-> FALSE, generated_text |-> <<>>]]
            : o \in JsonObjects}
    \cup {[shape |-> "object", elems |-> <<>>, obj |-> o] : o \in JsonObjects}

\* dict.get('generated_text', '')
DictGet(o) == IF o.has_text THEN o.generated_text ELSE <<>>

\* lines 79-82: the value returned for a 200 body, or the AttributeError of
\* calling .get on a list
JsonTextDropsGuard(body) ==
    IF body.shape = "list"
    THEN IF Len(body.elems) > 0 THEN Return(DictGet(body.elems[1])) ELSE Return(<<>>)
    ELSE Return(DictGet(body.obj))

JsonText(body) ==
    IF body.shape = "list" /\ Len(body.elems) > 0
    THEN Return(DictGet(body.elems[1]))
    ELSE IF body.shape = "list"
         THEN Raise("AttributeError")
         ELSE Return(DictGet(body.obj))

\* line 76: the sleep after a 503 on loop index `a`
BackoffFlat(d, a) == d

Backoff(d, a) == d * (a + 1)

\* line 91: the sleep after an exception that is not re-raised
FaultDelayScaled(d, a) == d * (a + 1)

FaultDelay(d, a) == d

\* line 89: the exception of loop index `a` is re-raised
IsLastAttemptNever(a, n) == FALSE

IsLastAttempt(a, n) == a = n - 1

\* log entries: a request of loop index `a` with its answer (threw: the attempt
\* ended in the except clause), and a time.sleep(secs) made on loop index `a`
Request(a, status, body, threw) ==
    [ev |-> "request", attempt |-> a, status |-> status, body |-> body, threw |-> threw, secs |-> 0]
Sleep(a, secs) ==
    [ev |-> "sleep", attempt |-> a, status |-> 0, body |-> <<>>, threw |-> FALSE, secs |-> secs]

\* the ways an attempt can end, as recorded in the log's status
Fault == -1
OtherStatuses == {404, 500}

InLoop == pc = "loop" /\ attempt < max_retries

\* lines 87-91: the except clause, entered on loop index `attempt`
Except(ev, e) ==
    IF IsLastAttempt(attempt, max_retries)
    THEN /\ log' = log \o <<ev>>
         /\ pc' = "raised"
         /\ client_out' = Raise(e)
         /\ attempt' = attempt
    ELSE /\ log' = log \o <<ev, Sleep(attempt, FaultDelay(delay, attempt))>>
         /\ attempt' = attempt + 1
         /\ UNCHANGED <<pc, client_out>>

\* lines 72, 87: requests.post raises (a transport fault)
RequestFault ==
    /\ InLoop
    /\ Except(Request(attempt, Fault, <<>>, TRUE), "ConnectionError")
    /\ UNCHANGED <<entry, input, max_retries, delay, pipe_out, fn, arg, out, db, pos>>

\* HTTP 503 with the sleep left out on the last attempt
Respond503NoFinalSleep ==
    /\ InLoop
    /\ log' = log \o IF IsLastAttempt(attempt, max_retries)
                     THEN <<Request(attempt, 503, <<>>, FALSE)>>
                     ELSE <<Request(attempt, 503, <<>>, FALSE), Sleep(attempt, Backoff(delay, attempt))>>
    /\ attempt' = attempt + 1
    /\ UNCHANGED <<entry, input, max_retries, delay, pc, client_out, pipe_out, fn, arg, out, db, pos>>

\* lines 74-77: HTTP 503, sleep delay * (attempt + 1) and continue
Respond503 ==
    /\ InLoop
    /\ log' = log \o <<Request(attempt, 503, <<>>, FALSE), Sleep(attempt, Backoff(delay, attempt))>>
    /\ attempt' = attempt + 1
    /\ UNCHANGED <<entry, input, max_retries, delay, pc, client_out, pipe_out, fn, arg, out, db, pos>>

\* lines 78-82: HTTP 200, return the generated text
Respond200 ==
    /\ InLoop
    /\ \E body \in JsonBodies :
         LET r == JsonText(body)
         IN  IF r.kind = "raise"
             THEN Except(Request(attempt, 200, <<body>>, TRUE), r.exc)
             ELSE /\ log' = log \o <<Request(attempt, 200, <<body>>, FALSE)>>
                  /\ pc' = "returned"
                  /\ client_out' = Text(r.value)
                  /\ attempt' = attempt
    /\ UNCHANGED <<entry, input, max_retries, delay, pipe_out, fn, arg, out, db, pos>>

\* lines 83-85, 93: any other status, break and return None
RespondOtherRetries ==
    /\ InLoop
    /\ \E s \in OtherStatuses :
         log' = log \o <<Request(attempt, s, <<>>, FALSE), Sleep(attempt, Backoff(delay, attempt))>>
    /\ attempt' = attempt + 1
    /\ UNCHANGED <<entry, input, max_retries, delay, pc, client_out, pipe_out, fn, arg, out, db, pos>>

RespondOther ==
    /\ InLoop
    /\ \E s \in OtherStatuses :
         log' = log \o <<Request(attempt, s, <<>>, FALSE)>>
    /\ pc' = "returned"
    /\ client_out' = None
    /\ UNCHANGED <<entry, input, max_retries, delay, attempt, pipe_out, fn, arg, out, db, pos>>

\* lines 70, 93: range(max_retries) is exhausted, return None
ExhaustedRaises ==
    /\ pc = "loop"
    /\ attempt >= max_retries
    /\ pc' = "raised"
    /\ client_out' = Raise("Exception")
    /\ UNCHANGED <<entry, input, max_retries, delay, attempt, log, pipe_out, fn, arg, out, db, pos>>

Exhausted ==
    /\ pc = "loop"
    /\ attempt >= max_retries
    /\ pc' = "returned"
    /\ client_out' = None
    /\ UNCHANGED <<entry, input, max_retries, delay, attempt, log, pipe_out, fn, arg, out, db, pos>>

---------------------------------------------------------------------------
(* The inputs of the model *)

MaxQuestionCount == 4
MaxDays == 2
MaxTopics == 2
MaxLines == 1
MaxRepeat == 11
MaxLevelLines == 2
MaxMilestones == 4
MaxScoreLines == 2
MaxSolutionLines == 3
MaxQuizLines == 3
MaxPlanLines == 2
MaxCopies == 81
MaxChangedLen == 2

NoInput == [kind |-> "none"]

Titles == { <<>>, <<"C", "e", "l", "l", " ", "B", "i", "o", "l", "o", "g", "y">> }
Topics == { <<"C", "e", "l", "l", "s">>, <<"G", "e", "n", "e", "s">> }
OrigTexts == { <<"C", "e", "l", "l", "s", " ", "a", "r", "e", " ", "t", "h", "e", " ", "u", "n", "i", "t", " ", "o", "f", " ", "l", "i", "f", "e", ".">>, <<"T", "h", "e", " ", "s", "c", "i", "e", "n", "c", "e", " ", "a", "n", "d", " ", "h", "i", "s", "t", "o", "r", "y", " ", "o", "f", " ", "c", "e", "l", "l", "s">>, <<"S", "c", "i", "e", "n", "c", "e", ",", " ", "h", "i", "s", "t", "o", "r", "y", ",", " ", "a", "r", "t", " ", "a", "n", "d", " ", "r", "e", "s", "e", "a", "r", "c", "h", " ", "i", "n", " ", "e", "d", "u", "c", "a", "t", "i", "o", "n">> }

NotesInputs == [kind : {"notes"}, text : OrigTexts, title : Titles, source_type : {<<"t", "e", "x", "t">>}]

QuizInputs ==
    [kind : {"quiz"}, topic : {<<"C", "e", "l", "l", "s">>}, difficulty : {<<"easy">>},
     question_count : 0..MaxQuestionCount,
     question_types : {{"multiple_choice", "true_false", "short_answer"}}]

TopicLists == UNION {[1..n -> Topics] : n \in 0..MaxTopics}

PlanInputs ==
    [kind : {"plan"}, subject : {<<>>, <<"B", "i", "o", "l", "o", "g", "y">>}, topics : TopicLists,
     duration_days : 0..MaxDays, daily_study_time : {60}]

UserAnswers == { <<>>, <<"P", "a", "r", "i", "s">>, <<" ", "p", "a", "r", "i", "s", " ">>, <<"R", "o", "m", "e">> }
AnswerLists == { <<>>, <<<<"p", "a", "r", "i", "s">>>>, <<<<"L", "o", "n", "d", "o", "n">>, <<"P", "A", "R", "I", "S", " ">>>> }

GradeInputs == [kind : {"grade"}, user_answer : UserAnswers, correct_answers : AnswerLists]

\* a milestone: its status and its own progress, which may disagree with the
\* status or lie outside 0..100
Milestones ==
    { [status |-> "completed", progress_percentage |-> 50],
      [status |-> "in_progress", progress_percentage |-> 50],
      [status |-> "in_progress", progress_percentage |-> 100],
      [status |-> "in_progress", progress_percentage |-> -10],
      [status |-> "not_started", progress_percentage |-> 50] }

RoadmapInputs ==
    [kind : {"roadmap"}, milestones : UNION {[1..n -> Milestones] : n \in 0..MaxMilestones},
     overall_progress_percentage : {0}, completed_milestones : {{}}, status : {"active"}]

\* the lines the generated texts are made of
Lines ==
    { <<>>,
      <<"H", "e", "l", "l", "o">>,
      <<"-", " ", "s", "h", "o", "r", "t">>,
      <<"-", " ", "K", "e", "y", " ", "i", "d", "e", "a", " ", "o", "n", "e", " ", "a", "b", "o", "u", "t", " ", "m", "a", "m", "m", "a", "l", "s">>,
      <<"1", ".", " ", "K", "e", "y", " ", "i", "d", "e", "a", " ", "t", "w", "o", " ", "a", "b", "o", "u", "t", " ", "b", "i", "o", "l", "o", "g", "y">>,
      <<"W", "h", "a", "t", " ", "i", "s", " ", "a", " ", "m", "a", "m", "m", "a", "l", "?">>,
      <<"S", "u", "m", "m", "a", "r", "y", ":", " ", "C", "a", "t", "s", " ", "a", "r", "e", " ", "m", "a", "m", "m", "a", "l", "s", ".">> }

RepeatedLines == { <<"-", " ", "K", "e", "y", " ", "i", "d", "e", "a", " ", "o", "n", "e", " ", "a", "b", "o", "u", "t", " ", "m", "a", "m", "m", "a", "l", "s">>, <<"W", "h", "a", "t", " ", "i", "s", " ", "t", "h", "e", " ", "m", "a", "i", "n", " ", "i", "d", "e", "a", " ", "o", "f", " ", "a", " ", "m", "a", "m", "m", "a", "l", "?">> }

\* a text: up to MaxLines lines, then up to MaxRepeat copies of one line
MkText(pre, rep, n) == Join(pre \o [i \in 1..n |-> rep], <<"\n">>)

Texts ==
    { MkText(pre, rep, n) :
        pre \in UNION {[1..k -> Lines] : k \in 0..MaxLines},
        rep \in RepeatedLines,
        n \in 0..MaxRepeat }

\* lines that name a difficulty tier, in either case, and one that names none
LevelLines ==
    { <<"A", "n", " ", "A", "d", "v", "a", "n", "c", "e", "d", " ", "t", "o", "p", "i", "c">>,
      <<"o", "f", " ", "m", "o", "d", "e", "r", "a", "t", "e", " ", "d", "e", "p", "t", "h">>,
      <<"a", " ", "C", "O", "M", "P", "L", "E", "X", " ", "a", "n", "d", " ", "m", "e", "d", "i", "u", "m", " ", "o", "n", "e">>,
      <<"p", "l", "a", "i", "n", " ", "w", "o", "r", "d", "s">> }

LevelTexts ==
    { Join(ls, <<"\n">>) : ls \in UNION {[1..k -> LevelLines] : k \in 1..MaxLevelLines} }

\* lines with and without a score keyword, with and without a number
ScoreLines ==
    { <<"Y", "o", "u", "r", " ", "s", "c", "o", "r", "e", " ", "i", "s", " ", "h", "i", "g", "h">>,
      <<"S", "C", "O", "R", "E", " ", "1", "5", "0">>,
      <<"1", ".", " ", "O", "v", "e", "r", "a", "l", "l", " ", "r", "e", "a", "d", "i", "n", "e", "s", "s", " ", "s", "c", "o", "r", "e", ":", " ", "8", "5">>,
      <<"Y", "o", "u", " ", "a", "r", "e", " ", "7", "5", "%", " ", "r", "e", "a", "d", "y">>,
      <<"S", "t", "e", "p", " ", "2", " ", "c", "o", "m", "e", "s", " ", "n", "e", "x", "t">> }

ScoreTexts ==
    { Join(ls, <<"\n">>) : ls \in UNION {[1..k -> ScoreLines] : k \in 1..MaxScoreLines} }

\* lines of a generated quiz: two question lines, a question that is too
\* short, and a statement
QuizLines ==
    { <<"W", "h", "a", "t", " ", "i", "s", " ", "t", "h", "e", " ", "m", "a", "i", "n", " ", "i", "d", "e", "a", " ", "o", "f", " ", "a", " ", "m", "a", "m", "m", "a", "l", "?">>,
      <<" ", " ", "Q", "U", "E", "S", "T", "I", "O", "N", " ", "2", ":", " ", "n", "a", "m", "e", " ", "t", "h", "e", " ", "l", "a", "r", "g", "e", "s", "t", " ", "o", "r", "g", "a", "n">>,
      <<"W", "h", "a", "t", " ", "i", "s", " ", "a", " ", "m", "a", "m", "m", "a", "l", "?">>,
      <<"C", "e", "l", "l", "s", " ", "d", "i", "v", "i", "d", "e", " ", "b", "y", " ", "m", "i", "t", "o", "s", "i", "s", " ", "i", "n", " ", "m", "o", "s", "t", " ", "t", "i", "s", "s", "u", "e", "s">> }

QuizTexts ==
    { Join(ls, <<"\n">>) : ls \in UNION {[1..k -> QuizLines] : k \in 0..MaxQuizLines} }

QuizParseInputs ==
    [kind : {"quizparse"}, text : QuizTexts, topic : {<<"C", "e", "l", "l", "s">>}, difficulty : {<<"easy">>},
     question_count : 0..MaxQuestionCount,
     question_types : {{"multiple_choice", "true_false", "short_answer"}}]

\* lines of a worked solution: section headers and lines of their sections
SolutionLines ==
    { <<"S", "o", "l", "u", "t", "i", "o", "n", " ", "s", "t", "e", "p", "s", ":">>,
      <<"M", "u", "l", "t", "i", "p", "l", "y", " ", "b", "o", "t", "h", " ", "s", "i", "d", "e", "s", " ", "b", "y", " ", "t", "w", "o">>,
      <<"K", "e", "y", " ", "c", "o", "n", "c", "e", "p", "t", "s">>,
      <<"-", " ", "L", "i", "n", "e", "a", "r", " ", "e", "q", "u", "a", "t", "i", "o", "n", "s">>,
      <<"S", "i", "m", "i", "l", "a", "r", " ", "p", "r", "o", "b", "l", "e", "m", "s", " ", "t", "o", " ", "p", "r", "a", "c", "t", "i", "c", "e">> }

SolutionTexts ==
    { Join(ls, <<"\n">>) : ls \in UNION {[1..k -> SolutionLines] : k \in 1..MaxSolutionLines} }

\* lines of a generated study plan: days inside and outside the plan, in
\* either case, and a line that names no day
DayLines ==
    { <<"D", "a", "y", " ", "1", ":", " ", "c", "e", "l", "l", "s">>,
      <<"d", "a", "y", " ", "2", " ", "-", " ", "g", "e", "n", "e", "s">>,
      <<"D", "A", "Y", " ", "0", " ", "w", "a", "r", "m", "-", "u", "p">>,
      <<"D", "a", "y", " ", "3", ":", " ", "e", "x", "t", "r", "a">>,
      <<"H", "e", "l", "l", "o">> }

PlanTexts == { Join(ls, <<"\n">>) : ls \in UNION {[1..k -> DayLines] : k \in 0..MaxPlanLines} }

\* the arguments of _parse_study_plan: the generated text and the plan_data
PlanParseInputs ==
    [kind : {"planparse"}, text : PlanTexts, subject : {<<"B", "i", "o", "l", "o", "g", "y">>}, topics : TopicLists,
     duration_days : 0..MaxDays, daily_study_time : {60}]

\* the texts handed to _clean_tutor_response: an artifact prefix or none, then
\* copies of one unit, a few or enough to pass the length limit
ResponsePrefixes == { <<>>, <<" ", "T", "u", "t", "o", "r", ":", " ">>, <<"A", "I", ":", "R", "e", "s", "p", "o", "n", "s", "e", ":">>, <<"R", "e", "s", "p", "o", "n", "s", "e", ":", "A", "I", ":">> }
ResponseUnits == { <<"C", "e", "l", "l", "s", " ", "d", "i", "v", "i", "d", "e", ".", " ">>, <<"a", "b", "c", "d", "e", "f", "g", "h", "i", "j">> }
CopyCounts == {n \in 0..MaxCopies : n <= 2 \/ n >= MaxCopies - 2}

TutorTexts ==
    { pre \o Join([i \in 1..n |-> unit], <<>>) :
        pre \in ResponsePrefixes, unit \in ResponseUnits, n \in CopyCounts }

TutorInputs == [kind : {"tutor"}, text : TutorTexts]

AllTexts == Texts \cup LevelTexts \cup ScoreTexts

SolutionInputs == [kind : {"solution"}, text : SolutionTexts, problem_type : {<<"a", "l", "g", "e", "b", "r", "a">>}]

TextInputs == [kind : {"text"}, text : AllTexts, problem_type : {<<"a", "l", "g", "e", "b", "r", "a">>}]

---------------------------------------------------------------------------
(* Spec: a call of the client, direct or through a pipeline entry point *)

\* the store before the call: no roadmap, no milestone, no chat message
EmptyDb == [roadmaps |-> <<>>, milestones |-> <<>>, messages |-> <<>>]

\* a call that has not reached its first write
NoPos == [at |-> "none", handler |-> "none", k |-> 0, roadmap |-> 0, pending |-> <<>>]

StoreIdle ==
    /\ db = EmptyDb
    /\ pos = NoPos

RoadmapGenInputs ==
    [kind : {"roadmapgen"}, career_goal : {<<"D", "a", "t", "a", " ", "A", "n", "a", "l", "y", "s", "t">>}, target_months : {6},
     time_commitment : {10}]

\* the arguments of generate_tutor_response; the session has no message yet
TutorCallInputs ==
    [kind : {"tutorcall"}, user_message : {<<"W", "h", "a", "t", " ", "i", "s", " ", "a", " ", "c", "e", "l", "l", "?">>},
     session_type : {"chat", "exam_prep", "other"}, include_context : BOOLEAN]

InitDirect ==
    /\ entry = "direct"
    /\ input = NoInput
    /\ max_retries \in 0..MaxRetriesBound
    /\ delay \in 1..MaxDelay

\* notes line 116, quizzes line 80, tutor line 629: call_huggingface_api(prompt)
InitPipeline ==
    /\ \/ entry = "notes" /\ input \in NotesInputs
       \/ entry = "quiz" /\ input \in QuizInputs
       \/ entry = "plan" /\ input \in PlanInputs
       \/ entry = "grade" /\ input \in GradeInputs
       \/ entry = "roadmap" /\ input \in RoadmapGenInputs
       \/ entry = "tutor" /\ input \in TutorCallInputs
    /\ max_retries = DefaultMaxRetries
    /\ delay = DefaultDelay

PureIdle ==
    /\ fn = "none"
    /\ arg = NoInput
    /\ out = Pending

Init ==
    /\ InitDirect \/ InitPipeline
    /\ attempt = 0
    /\ pc = "loop"
    /\ log = <<>>
    /\ client_out = Pending
    /\ pipe_out = Pending
    /\ PureIdle
    /\ StoreIdle

ClientDone == pc \in {"returned", "raised"} /\ pipe_out = Pending

\* generate_notes_from_text, from the client's outcome on
NotesReturn ==
    /\ entry = "notes"
    /\ ClientDone
    /\ pipe_out' = generate_notes_from_text(client_out, input)
    /\ UNCHANGED <<entry, input, max_retries, delay, attempt, pc, log, client_out, fn, arg, out, db, pos>>

\* generate_quiz_questions, from the client's outcome on
QuizReturn ==
    /\ entry = "quiz"
    /\ ClientDone
    /\ pipe_out' = generate_quiz_questions(client_out, input)
    /\ UNCHANGED <<entry, input, max_retries, delay, attempt, pc, log, client_out, fn, arg, out, db, pos>>

\* generate_study_plan, from the client's outcome on
PlanReturn ==
    /\ entry = "plan"
    /\ ClientDone
    /\ pipe_out' = generate_study_plan(client_out, input)
    /\ UNCHANGED <<entry, input, max_retries, delay, attempt, pc, log, client_out, fn, arg, out, db, pos>>

\* _evaluate_short_answer, from the client's outcome on
GradeReturn ==
    /\ entry = "grade"
    /\ ClientDone
    /\ pipe_out' = evaluate_short_answer(client_out, input)
    /\ UNCHANGED <<entry, input, max_retries, delay, attempt, pc, log, client_out, fn, arg, out, db, pos>>

\* roadmaps lines 64-103: generate_personalized_roadmap, from the client's
\* outcome on.  Every call of the ORM either succeeds or raises.  pos.handler
\* is the except clause an exception reaches: "parse" (line 146, inside
\* _parse_roadmap_response), "generate" (line 99) or "none" (the exception
\* leaves the call).

\* lines 146-150 and 99-103: the except clauses call _create_fallback_roadmap
RoadmapExcept ==
    IF pos.handler = "none"
    THEN /\ pos' = [pos EXCEPT !.at = "done"]
         /\ pipe_out' = Raise("DatabaseError")
    ELSE /\ pos' = [at |-> "fallback:create",
                    handler |-> IF pos.handler = "parse" THEN "generate" ELSE "none",
                    k |-> 0, roadmap |-> 0, pending |-> <<>>]
         /\ UNCHANGED pipe_out

\* lines 89-97: a text is parsed; without one an exception is raised in the try
\* block, and the client's exception is caught there as well
RoadmapStart ==
    /\ entry = "roadmap"
    /\ ClientDone
    /\ pos.at = "none"
    /\ pos' = IF Truthy(client_out)
              THEN [NoPos EXCEPT !.at = "parse:create", !.handler = "parse"]
              ELSE [NoPos EXCEPT !.at = "fallback:create", !.handler = "none"]
    /\ UNCHANGED <<entry, input, max_retries, delay, attempt, pc, log, client_out, pipe_out,
                   fn, arg, out, db>>

\* lines 121-129 and 295-303: PersonalizedRoadmap.objects.create(...)
RoadmapCreate ==
    /\ entry = "roadmap"
    /\ pos.at \in {"parse:create", "fallback:create"}
    /\ \/ /\ db' = [db EXCEPT !.roadmaps =
                      Append(@, [id |-> Len(@) + 1,
                                 title |-> IF pos.at = "parse:create"
                                           THEN roadmap_title(client_out.text, input.career_goal)
                                           ELSE <<"Learning Path: ">> \o input.career_goal])]
          /\ pos' = [pos EXCEPT
                       !.at = IF pos.at = "parse:create" THEN "parse:category"
                              ELSE "fallback:category",
                       !.roadmap = Len(db.roadmaps) + 1,
                       !.pending = IF pos.at = "parse:create"
                                   THEN extract_milestones(client_out.text)
                                   ELSE basic_milestones]
          /\ UNCHANGED pipe_out
       \/ /\ RoadmapExcept
          /\ UNCHANGED db
    /\ UNCHANGED <<entry, input, max_retries, delay, attempt, pc, log, client_out, fn, arg, out>>

\* lines 201 and 324: SkillCategory.objects.first() or ...create(name='General')
RoadmapCategory ==
    /\ entry = "roadmap"
    /\ pos.at \in {"parse:category", "fallback:category"}
    /\ \/ /\ pos' = [pos EXCEPT !.at = IF pos.at = "parse:category" THEN "parse:milestones"
                                       ELSE "fallback:milestones"]
          /\ UNCHANGED pipe_out
       \/ RoadmapExcept
    /\ UNCHANGED <<entry, input, max_retries, delay, attempt, pc, log, client_out, fn, arg, out, db>>

\* lines 203-222 and 326-343: one pass of the loop, Skill.objects.get_or_create
\* and RoadmapMilestone.objects.create
RoadmapMilestoneCreate ==
    /\ entry = "roadmap"
    /\ pos.at \in {"parse:milestones", "fallback:milestones"}
    /\ pos.k < Len(pos.pending)
    /\ \/ /\ db' = [db EXCEPT !.milestones =
                      Append(@, [roadmap |-> pos.roadmap,
                                 title |-> pos.pending[pos.k + 1].title,
                                 order |-> pos.pending[pos.k + 1].order])]
          /\ pos' = [pos EXCEPT !.k = @ + 1]
          /\ UNCHANGED pipe_out
       \/ /\ RoadmapExcept
          /\ UNCHANGED db
    /\ UNCHANGED <<entry, input, max_retries, delay, attempt, pc, log, client_out, fn, arg, out>>

\* lines 134-144: after the milestones, roadmap.save() and return roadmap
RoadmapSave ==
    /\ entry = "roadmap"
    /\ pos.at = "parse:milestones"
    /\ pos.k = Len(pos.pending)
    /\ \/ /\ pos' = [pos EXCEPT !.at = "done"]
          /\ pipe_out' = Return(db.roadmaps[pos.roadmap])
       \/ RoadmapExcept
    /\ UNCHANGED <<entry, input, max_retries, delay, attempt, pc, log, client_out, fn, arg, out, db>>

\* line 345: the fallback returns its roadmap
RoadmapFallbackReturn ==
    /\ entry = "roadmap"
    /\ pos.at = "fallback:milestones"
    /\ pos.k = Len(pos.pending)
    /\ pos' = [pos EXCEPT !.at = "done"]
    /\ pipe_out' = Return(db.roadmaps[pos.roadmap])
    /\ UNCHANGED <<entry, input, max_retries, delay, attempt, pc, log, client_out, fn, arg, out, db>>

\* tutor lines 62-146: generate_tutor_response.  Every call of the ORM either
\* succeeds or raises; pos.handler is "generate" inside the try block (the
\* except clause of line 123 catches) and "none" inside that except clause.
\* Of a ChatMessage the type and the content are kept, its id is its position.

\* lines 123-127: the except clause answers with the fallback response
TutorExcept ==
    pos' = [NoPos EXCEPT !.at = "fallback:user",
                         !.pending = generate_fallback_response(input.user_message,
                                                                input.session_type)]

\* lines 68-72: the query for the recent messages raises, before the client
\* is called
TutorContextFault ==
    /\ entry = "tutor"
    /\ input.include_context
    /\ pc = "loop"
    /\ log = <<>>
    /\ pos.at = "none"
    /\ pc' = "not called"
    /\ TutorExcept
    /\ UNCHANGED <<entry, input, max_retries, delay, attempt, log, client_out, pipe_out,
                   fn, arg, out, db>>

\* lines 81-92: the response is the cleaned text, or the fallback response
\* when the client returned nothing; the client's exception is caught
TutorStart ==
    /\ entry = "tutor"
    /\ ClientDone
    /\ pos.at = "none"
    /\ IF client_out.kind = "raise"
       THEN TutorExcept
       ELSE pos' = [NoPos EXCEPT
                      !.at = "tutor:user",
                      !.handler = "generate",
                      !.pending = IF Truthy(client_out)
                                  THEN clean_tutor_response(client_out.text)
                                  ELSE generate_fallback_response(input.user_message,
                                                                  input.session_type)]
    /\ UNCHANGED <<entry, input, max_retries, delay, attempt, pc, log, client_out, pipe_out,
                   fn, arg, out, db>>

\* lines 95-102: ChatMessage.objects.create(message_type='user', ...)
TutorUserMessage ==
    /\ entry = "tutor"
    /\ pos.at = "tutor:user"
    /\ \/ /\ db' = [db EXCEPT !.messages =
                      Append(@, [message_type |-> "user", content |-> input.user_message])]
          /\ pos' = [pos EXCEPT !.at = "tutor:tutor"]
       \/ /\ TutorExcept
          /\ UNCHANGED db
    /\ UNCHANGED <<entry, input, max_retries, delay, attempt, pc, log, client_out, pipe_out,
                   fn, arg, out>>

\* lines 105-110: ChatMessage.objects.create(message_type='tutor', ...)
TutorTutorMessage ==
    /\ entry = "tutor"
    /\ pos.at = "tutor:tutor"
    /\ \/ /\ db' = [db EXCEPT !.messages =
                      Append(@, [message_type |-> "tutor", content |-> pos.pending])]
          /\ pos' = [pos EXCEPT !.at = "tutor:save", !.k = Len(db.messages) + 1]
       \/ /\ TutorExcept
          /\ UNCHANGED db
    /\ UNCHANGED <<entry, input, max_retries, delay, attempt, pc, log, client_out, pipe_out,
                   fn, arg, out>>

\* lines 113-121: session.save() and the result
TutorSessionSave ==
    /\ entry = "tutor"
    /\ pos.at = "tutor:save"
    /\ \/ /\ pos' = [pos EXCEPT !.at = "done"]
          /\ pipe_out' = Return([response |-> pos.pending, message_id |-> pos.k,
                                 error |-> FALSE])
       \/ /\ TutorExcept
          /\ UNCHANGED pipe_out
    /\ UNCHANGED <<entry, input, max_retries, delay, attempt, pc, log, client_out,
                   fn, arg, out, db>>

\* lines 130-134: the except clause saves the user message
TutorFallbackUser ==
    /\ entry = "tutor"
    /\ pos.at = "fallback:user"
    /\ \/ /\ db' = [db EXCEPT !.messages =
                      Append(@, [message_type |-> "user", content |-> input.user_message])]
          /\ pos' = [pos EXCEPT !.at = "fallback:tutor"]
          /\ UNCHANGED pipe_out
       \/ /\ pos' = [pos EXCEPT !.at = "done"]
          /\ pipe_out' = Raise("DatabaseError")
          /\ UNCHANGED db
    /\ UNCHANGED <<entry, input, max_retries, delay, attempt, pc, log, client_out, fn, arg, out>>

\* lines 136-146: the except clause saves the fallback response and returns
TutorFallbackTutor ==
    /\ entry = "tutor"
    /\ pos.at = "fallback:tutor"
    /\ \/ /\ db' = [db EXCEPT !.messages =
                      Append(@, [message_type |-> "tutor", content |-> pos.pending])]
          /\ pos' = [pos EXCEPT !.at = "done"]
          /\ pipe_out' = Return([response |-> pos.pending,
                                 message_id |-> Len(db.messages) + 1, error |-> TRUE])
       \/ /\ pos' = [pos EXCEPT !.at = "done"]
          /\ pipe_out' = Raise("DatabaseError")
          /\ UNCHANGED db
    /\ UNCHANGED <<entry, input, max_retries, delay, attempt, pc, log, client_out, fn, arg, out>>

Next ==
    \/ RequestFault
    \/ Respond503
    \/ Respond200
    \/ RespondOther
    \/ Exhausted
    \/ NotesReturn
    \/ QuizReturn
    \/ PlanReturn
    \/ GradeReturn
    \/ RoadmapStart
    \/ RoadmapCreate
    \/ RoadmapCategory
    \/ RoadmapMilestoneCreate
    \/ RoadmapSave
    \/ RoadmapFallbackReturn
    \/ TutorContextFault
    \/ TutorStart
    \/ TutorUserMessage
    \/ TutorTutorMessage
    \/ TutorSessionSave
    \/ TutorFallbackUser
    \/ TutorFallbackTutor

Spec == Init /\ [][Next]_vars

---------------------------------------------------------------------------
(* SpecPure: one parser or fallback generator applied to one input *)

ClientIdle ==
    /\ entry = "idle"
    /\ input = NoInput
    /\ max_retries = 0
    /\ delay = 0
    /\ attempt = 0
    /\ pc = "idle"
    /\ log = <<>>
    /\ client_out = Pending
    /\ pipe_out = Pending

InitPure ==
    /\ ClientIdle
    /\ StoreIdle
    /\ fn = "none"
    /\ arg \in TextInputs \cup NotesInputs \cup QuizInputs \cup PlanInputs \cup RoadmapInputs
                \cup SolutionInputs \cup QuizParseInputs \cup PlanParseInputs
                \cup TutorInputs
    /\ out = Pending

Apply(kind, name, result) ==
    /\ fn = "none"
    /\ arg.kind = kind
    /\ fn' = name
    /\ out' = result
    /\ UNCHANGED <<arg, entry, input, max_retries, delay, attempt, pc, log, client_out, pipe_out, db, pos>>

ApplyExtractBulletPoints ==
    Apply("text", "extract_bullet_points", Return(extract_bullet_points(arg.text)))

ApplyParseAiResponse ==
    \E ctx \in NotesInputs :
        Apply("text", "parse_ai_response",
              Return(parse_ai_response(arg.text, ctx.text, ctx.title, ctx.source_type)))

ApplyParseProblemSolution ==
    Apply("text", "_parse_problem_solution",
          Return(parse_problem_solution(arg.text, arg.problem_type)))

ApplyCreateFallbackNotes ==
    Apply("notes", "create_fallback_notes",
          Return(create_fallback_notes(arg.text, arg.title, arg.source_type)))

ApplyFallbackQuestions ==
    Apply("quiz", "_generate_fallback_questions",
          Return(generate_fallback_questions(arg.topic, arg.question_count, arg.difficulty)))

ApplyFallbackStudyPlan ==
    Apply("plan", "_create_fallback_study_plan", create_fallback_study_plan(arg))

SolutionLoopReturn ==
    /\ fn = "_parse_problem_solution loop"
    /\ out.kind = "scan"
    /\ out.i = Len(Split(arg.text, "\n"))
    /\ out' = Return(parse_problem_solution(arg.text, arg.problem_type))
    /\ UNCHANGED <<fn, arg, entry, input, max_retries, delay, attempt, pc, log, client_out, pipe_out, db, pos>>

ApplyExtractQuestions ==
    Apply("text", "extract_questions", Return(extract_questions(arg.text)))

ApplyExtractDifficulty ==
    Apply("text", "extract_difficulty", Return(extract_difficulty(arg.text)))

ApplyGenerateTags ==
    Apply("notes", "generate_tags", Return(generate_tags(arg.text, arg.source_type)))

ApplyUpdateRoadmapProgress ==
    Apply("roadmap", "update_roadmap_progress", Return(update_roadmap_progress(arg)))

ApplyParseGapAnalysis ==
    Apply("text", "_parse_gap_analysis",
          Return([overall_readiness_score |-> overall_readiness_score(arg.text)]))

\* _parse_problem_solution line by line: lines 327-340, then one pass of lines
\* 342-382 for each line, then the result of lines 384-404
SolutionLoopStart ==
    /\ fn = "none"
    /\ arg.kind = "solution"
    /\ fn' = "_parse_problem_solution loop"
    /\ out' = [kind |-> "scan", i |-> 0, st |-> SolutionScanInit]
    /\ UNCHANGED <<arg, entry, input, max_retries, delay, attempt, pc, log, client_out, pipe_out, db, pos>>

SolutionLoopLine ==
    /\ fn = "_parse_problem_solution loop"
    /\ out.kind = "scan"
    /\ out.i < Len(Split(arg.text, "\n"))
    /\ out' = [out EXCEPT !.i = @ + 1,
                           !.st = SolutionScanStep(@, Split(arg.text, "\n")[out.i + 1])]
    /\ UNCHANGED <<fn, arg, entry, input, max_retries, delay, attempt, pc, log, client_out, pipe_out, db, pos>>

ApplyParseQuestions ==
    Apply("quizparse", "_parse_questions_from_response",
          Return(parse_questions_from_response(arg.text, arg.topic, arg.difficulty,
                                               arg.question_count, arg.question_types)))

ApplyParseStudyPlan ==
    Apply("planparse", "_parse_study_plan", parse_study_plan(arg.text, arg))

ApplyCleanTutorResponse ==
    Apply("tutor", "_clean_tutor_response", Return(clean_tutor_response(arg.text)))

\* a milestone of the stored roadmap gets another status or progress, then
\* update_roadmap_progress (lines 538-567) is called on the roadmap; taken for
\* the roadmaps of up to MaxChangedLen milestones
MilestoneChange ==
    /\ fn \in {"update_roadmap_progress", "milestone change, update_roadmap_progress"}
    /\ out.kind = "return"
    /\ Len(out.value.milestones) <= MaxChangedLen
    /\ \E i \in DOMAIN out.value.milestones, m \in Milestones :
          /\ m # out.value.milestones[i]
          /\ arg' = [out.value EXCEPT !.milestones[i] = m]
          /\ out' = Return(update_roadmap_progress(arg'))
    /\ fn' = "milestone change, update_roadmap_progress"
    /\ UNCHANGED <<entry, input, max_retries, delay, attempt, pc, log, client_out, pipe_out, db, pos>>

NextPure ==
    \/ ApplyExtractBulletPoints
    \/ ApplyParseAiResponse
    \/ ApplyParseProblemSolution
    \/ ApplyCreateFallbackNotes
    \/ ApplyFallbackQuestions
    \/ ApplyFallbackStudyPlan
    \/ ApplyExtractQuestions
    \/ ApplyExtractDifficulty
    \/ ApplyGenerateTags
    \/ ApplyUpdateRoadmapProgress
    \/ ApplyParseGapAnalysis
    \/ SolutionLoopStart
    \/ SolutionLoopLine
    \/ SolutionLoopReturn
    \/ ApplyParseQuestions
    \/ ApplyParseStudyPlan
    \/ ApplyCleanTutorResponse
    \/ MilestoneChange

SpecPure == InitPure /\ [][NextPure]_vars

---------------------------------------------------------------------------
(* SpecStore: concurrent calls of evaluate_quiz_attempt (quizzes lines        *)
(* 275-372), each for an attempt of its own, all attempts of one user.  A    *)
(* call is a process; its steps are the calls of the ORM, each of which      *)
(* either succeeds or raises, and the except clause of line 371 turns every  *)
(* exception into an {'error': ...} result.                                  *)

NumCalls == 2
Procs == 1..NumCalls

\* a stored response with its question, before the evaluation
Response(question_type, selected_options, correct_answers, text_answer, points) ==
    [ question_type |-> question_type, selected_options |-> selected_options,
      correct_answers |-> correct_answers, text_answer |-> text_answer, points |-> points,
      is_correct |-> FALSE, points_earned |-> 0 ]

\* the responses of an attempt: none, a right choice, a right choice and a
\* short answer, a wrong true/false answer and a short answer
ResponseLists ==
    { <<>>,
      << Response("multiple_choice", <<"B">>, <<"B">>, <<>>, 2) >>,
      << Response("multiple_choice", <<"B">>, <<"B">>, <<>>, 2),
         Response("short_answer", <<>>, <<"paris">>, <<"Paris">>, 1) >>,
      << Response("true_false", <<"True">>, <<"False">>, <<>>, 1),
         Response("short_answer", <<>>, <<"paris">>, <<"Rome">>, 1) >> }

\* the attempt of call p as it is stored before the call
StoredAttempt ==
    [ status |-> "in_progress", total_questions |-> 0, correct_answers |-> 0,
      total_points |-> 0, earned_points |-> 0 ]

\* lines 280-284: the locals of a call that has not started
StartPos ==
    [ at |-> "start", i |-> 0, correct_count |-> 0, total_points |-> 0, earned_points |-> 0,
      user |-> 0, result |-> Pending ]

InitStore ==
    /\ ClientIdle
    /\ PureIdle
    /\ \E rs \in [Procs -> ResponseLists] :
          db = [ responses |-> rs,
                 attempts |-> [p \in Procs |-> StoredAttempt],
                 total_quizzes_taken |-> 0 ]
    /\ pos = [p \in Procs |-> StartPos]

\* lines 371-372: an exception anywhere in the try block
EvalError(p) ==
    pos' = [pos EXCEPT ![p].at = "done", ![p].result = Return([error |-> TRUE])]

\* lines 278-286: the responses of the attempt are counted and fetched
EvalLoad(p) ==
    /\ pos[p].at = "start"
    /\ \/ pos' = [pos EXCEPT ![p].at = "responses"]
       \/ EvalError(p)
    /\ UNCHANGED <<entry, input, max_retries, delay, attempt, pc, log, client_out, pipe_out,
                   fn, arg, out, db>>

\* lines 292-312: the verdict on one response; a short answer is graded by
\* _evaluate_short_answer, whose verdict depends on the generated text
Verdicts(response) ==
    IF response.question_type \in {"multiple_choice", "true_false"}
    THEN {response.selected_options = response.correct_answers}
    ELSE IF response.question_type = "short_answer" THEN BOOLEAN
    ELSE {FALSE}

\* lines 286-330: one pass of the loop, with response.save() at line 317
EvalResponse(p) ==
    /\ pos[p].at = "responses"
    /\ pos[p].i < Len(db.responses[p])
    /\ LET response == db.responses[p][pos[p].i + 1]
       IN  \/ \E is_correct \in Verdicts(response) :
                LET points == IF is_correct THEN response.points ELSE 0
                IN  /\ db' = [db EXCEPT !.responses[p][pos[p].i + 1] =
                                  [response EXCEPT !.is_correct = is_correct,
                                                   !.points_earned = points]]
                    /\ pos' = [pos EXCEPT
                                 ![p].i = @ + 1,
                                 ![p].correct_count = @ + (IF is_correct THEN 1 ELSE 0),
                                 ![p].total_points = @ + response.points,
                                 ![p].earned_points = @ + points]
           \/ /\ EvalError(p)
              /\ UNCHANGED db
    /\ UNCHANGED <<entry, input, max_retries, delay, attempt, pc, log, client_out, pipe_out,
                   fn, arg, out>>

\* lines 333-352: after the loop the attempt is completed and saved; of the
\* attempt the status and the counts are kept
EvalAttemptSave(p) ==
    /\ pos[p].at = "responses"
    /\ pos[p].i = Len(db.responses[p])
    /\ \/ /\ db' = [db EXCEPT !.attempts[p] =
                      [ status |-> "completed", total_questions |-> Len(db.responses[p]),
                        correct_answers |-> pos[p].correct_count,
                        total_points |-> pos[p].total_points,
                        earned_points |-> pos[p].earned_points ]]
          /\ pos' = [pos EXCEPT ![p].at = "stats"]
       \/ /\ EvalError(p)
          /\ UNCHANGED db
    /\ UNCHANGED <<entry, input, max_retries, delay, attempt, pc, log, client_out, pipe_out,
                   fn, arg, out>>

\* line 355: attempt.quiz.update_stats()
EvalUpdateStats(p) ==
    /\ pos[p].at = "stats"
    /\ \/ pos' = [pos EXCEPT ![p].at = "user"]
       \/ EvalError(p)
    /\ UNCHANGED <<entry, input, max_retries, delay, attempt, pc, log, client_out, pipe_out,
                   fn, arg, out, db>>

\* line 358: user = attempt.user, the user's row is read
EvalReadUser(p) ==
    /\ pos[p].at = "user"
    /\ \/ pos' = [pos EXCEPT ![p].at = "user_save", ![p].user = db.total_quizzes_taken]
       \/ EvalError(p)
    /\ UNCHANGED <<entry, input, max_retries, delay, attempt, pc, log, client_out, pipe_out,
                   fn, arg, out, db>>

\* lines 359-369: the count that was read, plus one, is written and the
\* result is returned
EvalSaveUser(p) ==
    /\ pos[p].at = "user_save"
    /\ \/ /\ db' = [db EXCEPT !.total_quizzes_taken = pos[p].user + 1]
          /\ pos' = [pos EXCEPT
                       ![p].at = "done",
                       ![p].result = Return([ error |-> FALSE,
                                              correct_answers |-> pos[p].correct_count,
                                              total_questions |-> Len(db.responses[p]) ])]
       \/ /\ EvalError(p)
          /\ UNCHANGED db
    /\ UNCHANGED <<entry, input, max_retries, delay, attempt, pc, log, client_out, pipe_out,
                   fn, arg, out>>

NextStore ==
    \/ \E p \in Procs : EvalLoad(p)
    \/ \E p \in Procs : EvalResponse(p)
    \/ \E p \in Procs : EvalAttemptSave(p)
    \/ \E p \in Procs : EvalUpdateStats(p)
    \/ \E p \in Procs : EvalReadUser(p)
    \/ \E p \in Procs : EvalSaveUser(p)

SpecStore == InitStore /\ [][NextStore]_vars

---------------------------------------------------------------------------
(* The claims about the inference client *)

ReqIdx == {i \in DOMAIN log : log[i].ev = "request"}
NumRequests == Cardinality(ReqIdx)
NumSleeps == Cardinality({i \in DOMAIN log : log[i].ev = "sleep"})

\* C1: if every one of the max_retries attempts (max_retries >= 1) receives
\* HTTP 503, the call does not raise: nothing is left to do but `return None`,
\* and None is what it returns.
C1_All503ReturnsNone ==
    ( /\ max_retries >= 1
      /\ NumRequests = max_retries
      /\ \A i \in ReqIdx : log[i].status = 503 )
    => /\ pc # "raised"
       /\ pc = "loop" => (attempt >= max_retries /\ ENABLED Exhausted)
       /\ pc = "returned" => client_out = None

C1_Witness ==
    /\ max_retries >= 2
    /\ NumRequests = max_retries
    /\ \A i \in ReqIdx : log[i].status = 503
    /\ pc = "returned"
    /\ client_out = None

\* C2: an attempt answered with a status other than 200 or 503 is the last
\* thing the call does: no further request, no sleep after it, None is
\* returned; when it is the first response, one request was sent and no sleep
\* was made.
C2_OtherStatusAborts ==
    \A i \in ReqIdx :
        (log[i].status \notin {200, 503, Fault}) =>
            /\ i = Len(log)
            /\ pc = "returned"
            /\ client_out = None
            /\ (log[i].attempt = 0) => (NumRequests = 1 /\ NumSleeps = 0)

C2_Witness ==
    /\ pc = "returned"
    /\ Len(log) = 1
    /\ log[1].ev = "request"
    /\ log[1].status \notin {200, 503, Fault}

\* C3: the call raises if and only if attempt number max_retries (loop index
\* max_retries - 1) ends in the except clause; an earlier attempt that does is
\* followed by a sleep of exactly `delay` and then by the next attempt.
C3_RaisesIffLastAttemptThrows ==
    /\ (pc = "raised") <=>
            (\E i \in ReqIdx : log[i].threw /\ log[i].attempt = max_retries - 1)
    /\ \A i \in ReqIdx :
         (log[i].threw /\ log[i].attempt # max_retries - 1) =>
            /\ i < Len(log)
            /\ log[i + 1] = Sleep(log[i].attempt, delay)
            /\ IF i + 2 <= Len(log)
               THEN log[i + 2].ev = "request" /\ log[i + 2].attempt = log[i].attempt + 1
               ELSE pc = "loop" /\ attempt = log[i].attempt + 1 /\ attempt < max_retries

C3_Witness ==
    /\ pc = "raised"
    /\ \E i \in ReqIdx : log[i].status = 503
    /\ \E i \in ReqIdx :
         log[i].threw /\ log[i].attempt = 1 /\ i < Len(log) /\ log[i + 1].secs = delay
    /\ delay > 1

\* C4: a 503 on attempt number k (loop index k - 1) is followed by a sleep of
\* delay * k before anything else, and one call never sends more than
\* max_retries requests.
C4_BackoffAndBudget ==
    /\ \A i \in ReqIdx :
         (log[i].status = 503) =>
            /\ i < Len(log)
            /\ log[i + 1] = Sleep(log[i].attempt, delay * (log[i].attempt + 1))
    /\ NumRequests <= max_retries

C4_Witness ==
    \E i \in ReqIdx :
        /\ log[i].status = 503
        /\ log[i].attempt = 1
        /\ i + 2 <= Len(log)
        /\ log[i + 1].secs = 2 * delay
        /\ log[i + 2].ev = "request"

\* C5: an attempt answered with HTTP 200 is the last thing the call does (no
\* further request, no sleep) and the call returns the generated text, for
\* every body shape: non-empty list, empty list, object.
C5_Ok200ReturnsAtOnce ==
    \A i \in ReqIdx :
        (log[i].status = 200) =>
            LET body == log[i].body[1]
            IN  /\ i = Len(log)
                /\ pc = "returned"
                /\ (body.shape = "list" /\ Len(body.elems) > 0)
                        => client_out = Text(DictGet(body.elems[1]))
                /\ (body.shape = "object") => client_out = Text(DictGet(body.obj))

---------------------------------------------------------------------------
(* The claims about the pipeline entry points *)

\* what the fallback generator of the entry point gives for the same inputs
FallbackOutcome(e, in) ==
    IF e = "notes" THEN Return(create_fallback_notes(in.text, in.title, in.source_type))
    ELSE IF e = "quiz"
    THEN Return(generate_fallback_questions(in.topic, in.question_count, in.difficulty))
    ELSE create_fallback_study_plan(in)

\* C6: when the client returns None, the entry point ends exactly as its
\* fallback generator does on the same inputs: the same value, and where the
\* generator itself raises (duration_days = 0, see C9) the same exception.
C6_NoneGivesFallback ==
    (entry \in {"notes", "quiz", "plan"} /\ pipe_out # Pending /\ client_out = None)
        => pipe_out = FallbackOutcome(entry, input)

C6_Witness ==
    /\ entry = "quiz"
    /\ client_out = None
    /\ input.question_count >= 2
    /\ pipe_out # Pending
    /\ pipe_out.kind = "return"
    /\ Len(pipe_out.value) >= 2

\* C7 as claimed: when the client raises, the entry point raises too instead
\* of returning fallback output (what the claim says of the other client
\* outcomes is kept in the amended statement below).
C7_ClientFaultReraised ==
    (entry \in {"notes", "quiz", "plan"} /\ pipe_out # Pending /\ pc = "raised")
        => pipe_out.kind = "raise"

\* C7 as amended: a client exception is caught and answered like None, by the
\* fallback generator; the only exception an entry point lets out is the
\* fallback generator's own ZeroDivisionError of a study plan of 0 days, for
\* every client outcome.
C7_FaultAnsweredByFallback ==
    (entry \in {"notes", "quiz", "plan"} /\ pipe_out # Pending) =>
        /\ (pc = "raised") => pipe_out = FallbackOutcome(entry, input)
        /\ (pipe_out.kind = "raise") <=> (entry = "plan" /\ input.duration_days = 0)
        /\ (pipe_out.kind = "raise") => pipe_out.exc = "ZeroDivisionError"

C7_Witness ==
    /\ entry = "notes"
    /\ pc = "raised"
    /\ client_out = Raise("ConnectionError")
    /\ pipe_out # Pending
    /\ pipe_out.kind = "return"

---------------------------------------------------------------------------
(* The claims about the parsers and the fallback generators *)

\* C8: for every non-empty generated text every field of the result of
\* parse_ai_response and of _parse_problem_solution is non-empty.
C8_AllFieldsPopulated ==
    /\ (fn = "parse_ai_response" /\ arg.text # <<>>) =>
            /\ out.value.summary # <<>>
            /\ out.value.content # <<>>
            /\ out.value.key_points # <<>>
            /\ out.value.questions # <<>>
            /\ out.value.difficulty_level # <<>>
            /\ out.value.estimated_read_time >= 1
            /\ out.value.tags # <<>>
    /\ (fn = "_parse_problem_solution" /\ arg.text # <<>>) =>
            /\ out.value.analysis # <<>>
            /\ out.value.solution_steps # <<>>
            /\ out.value.final_answer # <<>>
            /\ out.value.explanation # <<>>
            /\ out.value.key_concepts # <<>>
            /\ out.value.similar_problems # <<>>
            /\ out.value.learning_resources # <<>>

\* C9: every fallback generator returns (it never raises), for every input of
\* its domain: duration_days >= 0, any topic list, question_count >= 0.
C9_FallbackAlwaysSucceeds ==
    (fn \in {"create_fallback_notes", "_generate_fallback_questions", "_create_fallback_study_plan"})
        => out.kind = "return"

\* a line of the text starts with a recognized bullet marker
HasBulletLine(text) ==
    LET lines == Split(text, "\n")
    IN  \E i \in DOMAIN lines : IsBulletLine(lines[i])

\* C10: for a text with at least one bullet line extract_bullet_points returns
\* at least one item and at most 8.
C10_BulletItemsBetween1And8 ==
    (fn = "extract_bullet_points" /\ HasBulletLine(arg.text)) =>
        (Len(out.value) >= 1 /\ Len(out.value) <= 8)

\* the bullet line without its whole marker: the bullet character, or the
\* leading digits and their dot, and the blanks after it
StripWholeMarker(line) ==
    IF line[1] \in {Bullet, "-", "*"} THEN LStrip(Tail(line))
    ELSE LET n == CHOOSE k \in 1..(Len(line) - 1) :
                    /\ \A j \in 1..k : line[j] \in Digits
                    /\ line[k + 1] = "."
         IN  LStrip(Drop(line, n + 1))

\* the bullet lines of the text in input order, without their markers, those
\* longer than 10 characters, at most 8
MarkerFreeBullets(text) ==
    LET lines == StripAll(Split(text, "\n"))
        bullets == SelectSeq(lines, IsBulletLine)
        clean == [i \in 1..Len(bullets) |-> StripWholeMarker(bullets[i])]
        Long(p) == Len(p) > MinBulletLen
    IN  Take(SelectSeq(clean, Long), MaxPoints)

\* C11: for a text with bullet lines extract_bullet_points returns, in input
\* order, the bullet lines with their whole marker stripped that are longer
\* than 10 characters.
C11_BulletsWithoutMarker ==
    (fn = "extract_bullet_points" /\ HasBulletLine(arg.text)) =>
        out.value = MarkerFreeBullets(arg.text)

\* the k-th smallest element of a finite set of integers
Kth(S, k) == CHOOSE x \in S : Cardinality({y \in S : y < x}) = k - 1

\* the positions of the lines that, stripped, end with "?" and are longer
\* than 10 characters
QuestionLineIdx(text) ==
    LET lines == Split(text, "\n")
    IN  {i \in DOMAIN lines :
            LET l == Strip(lines[i])
            IN  l # <<>> /\ l[Len(l)] = "?" /\ Len(l) > MinQuestionLen}

\* C12: extract_questions returns the stripped question lines (ending with
\* "?", longer than 10 characters) in input order, at most 10 of them, and the
\* four default questions when there is none; the result is never empty.
C12_QuestionsInOrderOrDefault ==
    (fn = "extract_questions") =>
        LET lines == Split(arg.text, "\n")
            idx == QuestionLineIdx(arg.text)
            res == out.value
        IN  /\ out.kind = "return"
            /\ res # <<>>
            /\ idx = {} => res = DefaultQuestions
            /\ idx # {} =>
                    /\ Len(res) = Min(Cardinality(idx), MaxQuestions)
                    /\ \A k \in 1..Len(res) : res[k] = Strip(lines[Kth(idx, k)])

\* more than 10 question lines: the first 10 are returned
C12_Witness ==
    /\ fn = "extract_questions"
    /\ Cardinality(QuestionLineIdx(arg.text)) > MaxQuestions
    /\ Len(out.value) = MaxQuestions

\* a keyword of the tier occurs in the text, in any case
HasTierWord(text, words) ==
    \E k \in DOMAIN words : \E i \in 0..(Len(text) - Len(words[k])) :
        Lower(SubSeq(text, i + 1, i + Len(words[k]))) = words[k]

\* C13: extract_difficulty returns one of Beginner, Intermediate, Advanced; it
\* returns Advanced whenever an advanced keyword occurs, an intermediate one
\* beside it or not, and Beginner only when no keyword of either tier occurs.
C13_AdvancedTakesPrecedence ==
    (fn = "extract_difficulty") =>
        /\ out.kind = "return"
        /\ out.value \in {<<"Beginner">>, <<"Intermediate">>, <<"Advanced">>}
        /\ HasTierWord(arg.text, AdvancedWords) => out.value = <<"Advanced">>
        /\ out.value = <<"Beginner">> =>
                /\ ~HasTierWord(arg.text, AdvancedWords)
                /\ ~HasTierWord(arg.text, IntermediateWords)

\* both tiers are named, the intermediate one first
C13_Witness ==
    /\ fn = "extract_difficulty"
    /\ HasTierWord(arg.text, AdvancedWords)
    /\ HasTierWord(arg.text, IntermediateWords)
    /\ StartsWith(arg.text, <<"o", "f", " ", "m", "o", "d", "e", "r", "a", "t", "e">>)
    /\ out.value = <<"Advanced">>

\* the vocabulary terms that occur in the text, in any case
TermsIn(text) ==
    {k \in DOMAIN common_academic_terms : HasTierWord(text, <<common_academic_terms[k]>>)}

\* C14: generate_tags returns the source-type label, "study" and "notes",
\* followed only by vocabulary terms that occur in the text; never more than
\* 6 tags.
C14_TagsLabelledAndCapped ==
    (fn = "generate_tags") =>
        LET tags == out.value
        IN  /\ out.kind = "return"
            /\ Len(tags) >= 3
            /\ Len(tags) <= MaxTags
            /\ tags[1] = arg.source_type
            /\ tags[2] = <<"s", "t", "u", "d", "y">>
            /\ tags[3] = <<"n", "o", "t", "e", "s">>
            /\ \A k \in 4..Len(tags) :
                    \E t \in TermsIn(arg.text) : tags[k] = common_academic_terms[t]

\* more terms occur than the limit leaves room for
C14_Witness ==
    /\ fn = "generate_tags"
    /\ Cardinality(TermsIn(arg.text)) > MaxTags - 3
    /\ Len(out.value) = MaxTags

---------------------------------------------------------------------------
(* The claims about short-answer grading *)

\* the client did not deliver a text: it returned None or it raised
ModelCallFailed == client_out = None \/ client_out.kind = "raise"

\* the user answer equals a listed answer up to case and surrounding blanks
AnswerListed ==
    \E k \in DOMAIN input.correct_answers :
        Lower(Strip(input.user_answer)) = Lower(Strip(input.correct_answers[k]))

\* C15: when the model call raises or returns None, _evaluate_short_answer
\* returns (it does not raise), and returns True exactly when the user answer,
\* lower-cased and stripped, equals a listed answer lower-cased and stripped.
C15_FailedCallGradesByStringMatch ==
    (entry = "grade" /\ pipe_out # Pending /\ ModelCallFailed) =>
        /\ pipe_out.kind = "return"
        /\ pipe_out.value = AnswerListed

\* the client raised, the answer differs from the listed one in case and
\* blanks only, and is graded correct
C15_Witness ==
    /\ entry = "grade"
    /\ client_out.kind = "raise"
    /\ input.user_answer = <<" ", "p", "a", "r", "i", "s", " ">>
    /\ input.correct_answers = <<<<"L", "o", "n", "d", "o", "n">>, <<"P", "A", "R", "I", "S", " ">>>>
    /\ pipe_out = Return(TRUE)

\* C16 as claimed: when the client returned text (here: a non-empty one), the
\* grade is exactly "the text contains correct and not incorrect", whatever
\* the user answer.
C16_TextAloneDecides ==
    (entry = "grade" /\ pipe_out # Pending /\ Truthy(client_out)) =>
        pipe_out = Return(/\ Contains(Lower(client_out.text), <<"c", "o", "r", "r", "e", "c", "t">>)
                          /\ ~Contains(Lower(client_out.text), <<"i", "n", "c", "o", "r", "r", "e", "c", "t">>))

\* C16 as amended: a returned text that contains "correct" decides the grade
\* alone, by not containing "incorrect"; a returned text without "correct"
\* (the empty text included) is graded by the string match, as a failed call.
C16_VerdictElseStringMatch ==
    (entry = "grade" /\ pipe_out # Pending /\ client_out.kind = "text") =>
        IF Contains(Lower(client_out.text), <<"c", "o", "r", "r", "e", "c", "t">>)
        THEN pipe_out = Return(~Contains(Lower(client_out.text), <<"i", "n", "c", "o", "r", "r", "e", "c", "t">>))
        ELSE pipe_out = Return(AnswerListed)

\* the text has a verdict that contradicts the string match
C16_Witness ==
    /\ entry = "grade"
    /\ client_out.kind = "text"
    /\ Contains(Lower(client_out.text), <<"i", "n", "c", "o", "r", "r", "e", "c", "t">>)
    /\ AnswerListed
    /\ pipe_out = Return(FALSE)

---------------------------------------------------------------------------
(* The claims about the roadmap scores *)

\* what a milestone contributes: 100 when completed, its own progress when in
\* progress, 0 otherwise
Contribution(m) ==
    CASE m.status = "completed" -> 100
      [] m.status = "in_progress" -> m.progress_percentage
      [] OTHER -> 0

RECURSIVE SumOver(_, _)
SumOver(ms, S) ==
    IF S = {} THEN 0
    ELSE LET i == CHOOSE x \in S : TRUE
         IN  Contribution(ms[i]) + SumOver(ms, S \ {i})

\* C17: with n >= 1 milestones the stored overall_progress_percentage is the
\* quotient (sum of contributions) / n truncated to an integer, and it lies in
\* 0..100 when every progress_percentage does.
C17_OverallProgressTruncated ==
    (fn = "update_roadmap_progress" /\ Len(arg.milestones) >= 1) =>
        LET ms == arg.milestones
            n == Len(ms)
            sum == SumOver(ms, DOMAIN ms)
            q == out.value.overall_progress_percentage
        IN  /\ out.kind = "return"
            /\ sum >= 0 => (q * n <= sum /\ sum < (q + 1) * n)
            /\ sum < 0 => ((q - 1) * n < sum /\ sum <= q * n)
            /\ (\A i \in DOMAIN ms : ms[i].progress_percentage \in 0..100) => q \in 0..100

\* the contributions 100, 100, 50, 0 give 62
C17_Witness ==
    /\ fn = "update_roadmap_progress"
    /\ Len(arg.milestones) = 4
    /\ arg.milestones[1].status = "completed"
    /\ arg.milestones[2].status = "completed"
    /\ arg.milestones[3] = [status |-> "in_progress", progress_percentage |-> 50]
    /\ arg.milestones[4].status = "not_started"
    /\ out.value.overall_progress_percentage = 62

\* the positions of the lines that contain "score" (in any case) or "%" and
\* have a digit
ScoreLineIdx(text) ==
    LET lines == Split(text, "\n")
    IN  {i \in DOMAIN lines :
            /\ HasTierWord(lines[i], <<<<"s", "c", "o", "r", "e">>>>) \/ (\E x \in DOMAIN lines[i] : lines[i][x] = "%")
            /\ \E x \in DOMAIN lines[i] : lines[i][x] \in Digits}

\* the number written by the first run of digits of the line
FirstRunValue(line) ==
    LET a == CHOOSE x \in DOMAIN line :
                line[x] \in Digits /\ \A y \in 1..(x - 1) : line[y] \notin Digits
        b == CHOOSE x \in a..Len(line) :
                /\ \A y \in a..x : line[y] \in Digits
                /\ x = Len(line) \/ line[x + 1] \notin Digits
    IN  ParseInt(SubSeq(line, a, b))

\* C18: the overall_readiness_score of _parse_gap_analysis lies in 0..100: it
\* is the first run of digits of the first line that contains "score" or "%"
\* and has a digit, capped at 100, and 60 when there is no such line.
C18_ReadinessScoreInRange ==
    (fn = "_parse_gap_analysis") =>
        LET lines == Split(arg.text, "\n")
            idx == ScoreLineIdx(arg.text)
            score == out.value.overall_readiness_score
        IN  /\ out.kind = "return"
            /\ score \in 0..100
            /\ idx = {} => score = 60
            /\ idx # {} => score = Min(100, FirstRunValue(lines[Kth(idx, 1)]))

\* a score line without a number is passed over, and 150 is capped
C18_Witness ==
    /\ fn = "_parse_gap_analysis"
    /\ arg.text = <<"Y", "o", "u", "r", " ", "s", "c", "o", "r", "e", " ", "i", "s", " ", "h", "i", "g", "h", "\n", "S", "C", "O", "R", "E", " ", "1", "5", "0">>
    /\ out.value.overall_readiness_score = 100

---------------------------------------------------------------------------
(* The claims about the loop of _parse_problem_solution *)

\* the line the loop has just read, stripped
LineRead == Strip(Split(arg.text, "\n")[out'.i])

\* a pass of the loop: one more line has been read
LoopPass == fn = "_parse_problem_solution loop" /\ out'.kind = "scan" /\ out'.i = out.i + 1

\* how many items the pass added to an accumulator
Added(acc) == Len(out'.st[acc]) - Len(out.st[acc])

\* C19 as claimed: a pass changes the current section only on a line with a
\* section keyword, and a non-blank line read in the section steps, concepts
\* or similar that is longer than 10, 5 or 15 characters is appended to the
\* accumulator of that section.
C19_LongLinesAppended ==
    [][ LoopPass => \A line \in {LineRead} : \A now \in {out'.st.current_section} :
            /\ now # out.st.current_section => SectionOf(Lower(line)) = now
            /\ (now = "steps" /\ Len(line) > MinStepLen) => Added("solution_steps") = 1
            /\ (now = "concepts" /\ Len(line) > MinConceptLen) => Added("key_concepts") = 1
            /\ (now = "similar" /\ Len(line) > MinSimilarLen) => Added("similar_problems") = 1
      ]_vars

\* the cleaned line of a concept: "-" and "*" removed, stripped
ConceptOf(line) ==
    LET Kept(c) == c \notin {"-", "*"} IN Strip(SelectSeq(line, Kept))

\* C19 as amended: a pass changes the current section only on a line with a
\* section keyword, to the first matching set.  It appends to solution_steps
\* exactly when the section is steps and the line is longer than 10 characters
\* and contains step, first, next, then or finally; to key_concepts exactly
\* when the section is concepts, the line is longer than 5 characters and its
\* cleaned text is non-empty and not yet listed; to similar_problems exactly
\* when the section is similar and the line is longer than 15 characters.
C19_AppendedWithFilters ==
    [][ LoopPass => \A line \in {LineRead} : \A now \in {out'.st.current_section} :
            /\ now # out.st.current_section => SectionOf(Lower(line)) = now
            /\ out'.st.solution_steps =
                    IF /\ now = "steps"
                       /\ Len(line) > MinStepLen
                       /\ HasTierWord(line, <<<<"s", "t", "e", "p">>, <<"f", "i", "r", "s", "t">>, <<"n", "e", "x", "t">>, <<"t", "h", "e", "n">>, <<"f", "i", "n", "a", "l", "l", "y">>>>)
                    THEN Append(out.st.solution_steps,
                                [step |-> Len(out.st.solution_steps) + 1,
                                 description |-> line, work |-> line])
                    ELSE out.st.solution_steps
            /\ out'.st.key_concepts =
                    IF /\ now = "concepts"
                       /\ Len(line) > MinConceptLen
                       /\ ConceptOf(line) # <<>>
                       /\ \A k \in DOMAIN out.st.key_concepts :
                                out.st.key_concepts[k] # ConceptOf(line)
                    THEN Append(out.st.key_concepts, ConceptOf(line))
                    ELSE out.st.key_concepts
            /\ out'.st.similar_problems =
                    IF now = "similar" /\ Len(line) > MinSimilarLen
                    THEN Append(out.st.similar_problems,
                                [problem |-> line, difficulty |-> <<"medium">>])
                    ELSE out.st.similar_problems
      ]_vars

\* a line of 26 characters was read in the section steps and is no step
C19_Witness ==
    /\ fn = "_parse_problem_solution loop"
    /\ out.kind = "scan"
    /\ out.i = 2
    /\ arg.text = <<"S", "o", "l", "u", "t", "i", "o", "n", " ", "s", "t", "e", "p", "s", ":", "\n", "M", "u", "l", "t", "i", "p", "l", "y", " ", "b", "o", "t", "h", " ", "s", "i", "d", "e", "s", " ", "b", "y", " ", "t", "w", "o">>
    /\ out.st.current_section = "steps"
    /\ Len(out.st.solution_steps) = 1

---------------------------------------------------------------------------
(* The claims about the question parser *)

\* the positions of the recognised question lines: stripped, longer than 20
\* characters, ending with "?" or containing "question" in any case
RecognisedIdx(text) ==
    LET lines == Split(text, "\n")
    IN  {i \in DOMAIN lines : \A l \in {Strip(lines[i])} :
            /\ Len(l) > MinQuestionLineLen
            /\ l[Len(l)] = "?" \/ HasTierWord(l, <<<<"q", "u", "e", "s", "t", "i", "o", "n">>>>)}

\* C20: _parse_questions_from_response returns exactly question_count
\* questions: the first min(k, question_count) of the k recognised question
\* lines in input order, then fallback questions; each round of the filling
\* loop adds one question, so the loop ends.
C20_ExactlyQuestionCount ==
    (fn = "_parse_questions_from_response") =>
        LET lines == Split(arg.text, "\n")
            idx == RecognisedIdx(arg.text)
            parsed == Min(Cardinality(idx), arg.question_count)
            fill == generate_fallback_questions(arg.topic, 1, arg.difficulty)
            res == out.value
        IN  /\ out.kind = "return"
            /\ Len(res) = arg.question_count
            /\ \A j \in 1..parsed : res[j].question_text = Strip(lines[Kth(idx, j)])
            /\ Len(fill) = 1
            /\ \A j \in (parsed + 1)..arg.question_count : res[j] = fill[1]

\* more question lines than asked for: the first two are returned
C20_Witness ==
    /\ fn = "_parse_questions_from_response"
    /\ arg.question_count = 2
    /\ Cardinality(RecognisedIdx(arg.text)) = 3
    /\ Len(out.value) = 2
    /\ out.value[2].question_text = <<"Q", "U", "E", "S", "T", "I", "O", "N", " ", "2", ":", " ", "n", "a", "m", "e", " ", "t", "h", "e", " ", "l", "a", "r", "g", "e", "s", "t", " ", "o", "r", "g", "a", "n">>

---------------------------------------------------------------------------
\* C21: for every generated text and every plan of at least one day, the
\* study_schedule of _parse_study_plan has exactly the keys day_1 ..
\* day_<duration_days> and total_tasks counts the tasks of all its entries.
C21_ScheduleHasExactlyTheDays ==
    fn = "_parse_study_plan" /\ arg.duration_days >= 1 =>
        /\ out.kind = "return"
        /\ DOMAIN out.value.study_schedule = 1..arg.duration_days
        /\ out.value.total_tasks =
              Cardinality({ <<d, i>> \in (DOMAIN out.value.study_schedule) \X (1..MaxTopics + 1) :
                              i \in DOMAIN out.value.study_schedule[d].tasks })

---------------------------------------------------------------------------
\* C22: for every model output, the text returned by _clean_tutor_response
\* is at least 20 and at most 800 characters long.
C22_ResponseLengthInRange ==
    fn = "_clean_tutor_response" =>
        /\ out.kind = "return"
        /\ Len(out.value) >= 20
        /\ Len(out.value) <= 800

---------------------------------------------------------------------------
(* The claims about the numbering of the parsed solution *)

\* the 'step' fields are 1, 2, ..., n in list order
NumberedFromOne(steps) == \A k \in DOMAIN steps : steps[k].step = k

\* no entry of the list occurs twice
NoRepeat(xs) == \A j, k \in DOMAIN xs : xs[j] = xs[k] => j = k

\* C23: after every pass of the loop of _parse_problem_solution, and in its
\* result, the 'step' fields of solution_steps are 1, 2, ..., n in list order
\* and key_concepts has no duplicate entry.
C23_StepsNumberedConceptsDistinct ==
    /\ fn = "_parse_problem_solution loop" /\ out.kind = "scan" =>
            /\ NumberedFromOne(out.st.solution_steps)
            /\ out.st.step_number = Len(out.st.solution_steps)
            /\ NoRepeat(out.st.key_concepts)
    /\ fn \in {"_parse_problem_solution loop", "_parse_problem_solution"} /\ out.kind = "return" =>
            /\ NumberedFromOne(out.value.solution_steps)
            /\ NoRepeat(out.value.key_concepts)

\* two steps were parsed and numbered, then a concept was kept
C23_Witness ==
    /\ fn = "_parse_problem_solution loop"
    /\ out.kind = "return"
    /\ Len(Split(arg.text, "\n")) >= 3
    /\ Len(out.value.solution_steps) = 2
    /\ out.value.solution_steps[2].description = <<"S", "o", "l", "u", "t", "i", "o", "n", " ", "s", "t", "e", "p", "s", ":">>
    /\ out.value.key_concepts = << <<"K", "e", "y", " ", "c", "o", "n", "c", "e", "p", "t", "s">> >>

---------------------------------------------------------------------------
\* C24: after any sequence of milestone changes, each followed by
\* update_roadmap_progress, a stored roadmap whose status is 'completed' has
\* overall_progress_percentage 100.
C24_CompletedHasFullProgress ==
    /\ fn \in {"update_roadmap_progress", "milestone change, update_roadmap_progress"}
    /\ out.kind = "return"
    => (out.value.status = "completed" => out.value.overall_progress_percentage = 100)

---------------------------------------------------------------------------
(* The claim about the number and the length of the sleeps *)

\* the seconds slept so far
RECURSIVE TotalSlept(_)
TotalSlept(l) == IF l = <<>> THEN 0 ELSE Head(l).secs + TotalSlept(Tail(l))

\* C25: in call_huggingface_api the number of sleeps is the number of
\* attempts answered 503 plus the number of attempts before the last that ended
\* in the except clause; a 503 on the last attempt is followed by a sleep of
\* delay * max_retries, and a call whose attempts all got 503 has slept
\* delay * (1 + 2 + ... + max_retries) when it returns None.
C25_SleepsCounted ==
    /\ NumSleeps = Cardinality({i \in ReqIdx : log[i].status = 503})
                   + Cardinality({i \in ReqIdx : log[i].threw /\ log[i].attempt # max_retries - 1})
    /\ \A i \in ReqIdx :
          (log[i].status = 503 /\ log[i].attempt = max_retries - 1) =>
              /\ i + 1 = Len(log)
              /\ log[i + 1] = Sleep(max_retries - 1, delay * max_retries)
    /\ ( /\ pc = "returned"
         /\ NumRequests = max_retries
         /\ \A i \in ReqIdx : log[i].status = 503 )
       => /\ client_out = None
          /\ 2 * TotalSlept(log) = delay * max_retries * (max_retries + 1)

\* three attempts, all answered 503, with delay 2: sleeps of 2, 4 and 6 seconds
C25_Witness ==
    /\ pc = "returned"
    /\ max_retries = 3
    /\ delay = 2
    /\ NumRequests = 3
    /\ \A i \in ReqIdx : log[i].status = 503
    /\ NumSleeps = 3
    /\ TotalSlept(log) = 12

---------------------------------------------------------------------------
\* C26: every call of generate_personalized_roadmap that returns leaves
\* exactly one new PersonalizedRoadmap record in the store, the one it
\* returns, also when parsing or persisting failed partway and the fallback
\* roadmap was created.
C26_ExactlyOneNewRoadmap ==
    entry = "roadmap" /\ pipe_out.kind = "return" => db.roadmaps = <<pipe_out.value>>

---------------------------------------------------------------------------
\* the types of the stored chat messages, in the order they were created
MessageTypes == [i \in DOMAIN db.messages |-> db.messages[i].message_type]

\* C27: every call of generate_tutor_response that returns has added to the
\* session exactly one 'user' message followed by exactly one 'tutor'
\* message, whatever the client did and whether or not a persistence step of
\* the call failed.
C27_OneUserOneTutorMessage ==
    entry = "tutor" /\ pipe_out.kind = "return" => MessageTypes = <<"user", "tutor">>

\* C29: generate_quiz_questions returns exactly question_count questions,
\* whatever question_count >= 0 and whatever the client returned or raised.
C29_QuizHasQuestionCount ==
    entry = "quiz" /\ pipe_out.kind = "return" =>
        Len(pipe_out.value) = input.question_count

---------------------------------------------------------------------------
(* The claims about evaluate_quiz_attempt *)

\* the call of process p has returned a result without 'error'
Succeeded(p) == pos[p].result.kind = "return" /\ ~pos[p].result.value.error

\* the call of process p has returned {'error': ...}
Failed(p) == pos[p].result.kind = "return" /\ pos[p].result.value.error

\* C28: when the N concurrent calls of evaluate_quiz_attempt have all
\* completed successfully, the user's total_quizzes_taken has grown by N.
C28_NoIncrementLost ==
    (\A p \in Procs : Succeeded(p)) => db.total_quizzes_taken = NumCalls

\* C30: when evaluate_quiz_attempt returns {'error': ...}, the stored state
\* is as before the call: the attempt is not stored as 'completed', the
\* is_correct and points_earned of its responses are as they were stored,
\* and, no other call having started, total_quizzes_taken is unchanged.
C30_ErrorLeavesStoreUnchanged ==
    \A p \in Procs :
        Failed(p) =>
            /\ db.attempts[p] = StoredAttempt
            /\ \A i \in DOMAIN db.responses[p] :
                   ~db.responses[p][i].is_correct /\ db.responses[p][i].points_earned = 0
            /\ (\A q \in Procs \ {p} : pos[q].at = "start") => db.total_quizzes_taken = 0

=============================================================================
